---- MODULE Spec2Model ----
(***************************************************************************)
(* A model of assignment2/cs231n/layers.py: the forward and backward       *)
(* passes of the affine, ReLU, batch-normalisation, dropout, convolution   *)
(* and max-pooling layers and the SVM loss, each driven by a caller that   *)
(* draws the tensors it passes from small sets.                            *)
(*                                                                         *)
(* Numbers.  numpy computes in IEEE doubles; the model computes in exact   *)
(* arithmetic.  A rational is a pair <<n, d>> in lowest terms with d > 0.  *)
(* The one irrational operation of the code, the square root of            *)
(* sample_var + eps (or running_var + eps), is kept symbolic: a value of   *)
(* a batch-norm column is a triple <<a, b, r>> of rationals that stands    *)
(* for a + b * sqrt(r), r being the radicand of that column.  Rounding     *)
(* error                                                                   *)
(* is therefore outside the model; inf and nan are never produced because  *)
(* the inputs keep every divisor non-zero.                                 *)
(***************************************************************************)
EXTENDS Integers, Sequences, FiniteSets, TLC

VARIABLES
  relu_pc, relu_out, relu_cache, relu_dout, relu_dx,
  bn_param, bn_pc, bn_x, bn_prev, bn_err, bn_out, bn_cache, bn_calls,
  bn_dout, bn_grad, bn_grad_alt,
  rng, do_pc, do_err, do_x, do_param, do_out, do_cache, do_dout, do_dx,
  do_seen, do_calls,
  mp_pc, mp_out, mp_cache, mp_dout, mp_dx,
  cv_pc, cv_out, cv_cache, cv_dout, cv_grad,
  af_pc, af_out, af_cache, af_dout, af_grad,
  sv_pc, sv_x, sv_y, sv_eps, sv_loss, sv_dx

reluVars == <<relu_pc, relu_out, relu_cache, relu_dout, relu_dx>>
bnVars == <<bn_param, bn_pc, bn_x, bn_prev, bn_err, bn_out, bn_cache, bn_calls,
            bn_dout, bn_grad, bn_grad_alt>>
doVars == <<rng, do_pc, do_err, do_x, do_param, do_out, do_cache, do_dout,
            do_dx, do_seen, do_calls>>
mpVars == <<mp_pc, mp_out, mp_cache, mp_dout, mp_dx>>
cvVars == <<cv_pc, cv_out, cv_cache, cv_dout, cv_grad>>
afVars == <<af_pc, af_out, af_cache, af_dout, af_grad>>
svVars == <<sv_pc, sv_x, sv_y, sv_eps, sv_loss, sv_dx>>
vars == <<reluVars, bnVars, doVars, mpVars, cvVars, afVars, svVars>>

(***************************************************************************)
(* Exact rational arithmetic                                               *)
(***************************************************************************)
Abs(n) == IF n < 0 THEN -n ELSE n

RECURSIVE GCD(_, _)
GCD(a, b) == IF b = 0 THEN a ELSE GCD(b, a % b)

\* n/d in lowest terms, d # 0
Rat(n, d) ==
  LET g == GCD(Abs(n), Abs(d))
      s == IF d < 0 THEN -1 ELSE 1
  IN  <<(s * n) \div g, (s * d) \div g>>

RInt(n) == <<n, 1>>
RZero == <<0, 1>>
ROne == <<1, 1>>
RNeg(p) == <<-p[1], p[2]>>
RAdd(p, q) ==
  IF p[2] = q[2]
  THEN (IF p[2] = 1 THEN <<p[1] + q[1], 1>> ELSE Rat(p[1] + q[1], p[2]))
  ELSE LET g == GCD(p[2], q[2])
       IN  Rat(p[1] * (q[2] \div g) + q[1] * (p[2] \div g), (p[2] \div g) * q[2])
RSub(p, q) == RAdd(p, RNeg(q))
RMul(p, q) ==
  IF p[1] = 0 \/ q[1] = 0 THEN RZero
  ELSE IF p[2] = 1 /\ q[2] = 1 THEN <<p[1] * q[1], 1>>
  ELSE LET g1 == GCD(Abs(p[1]), q[2])
           g2 == GCD(Abs(q[1]), p[2])
       IN  <<(p[1] \div g1) * (q[1] \div g2), (p[2] \div g2) * (q[2] \div g1)>>
RInv(p) == IF p[1] < 0 THEN <<-p[2], -p[1]>> ELSE <<p[2], p[1]>>
RDiv(p, q) == RMul(p, RInv(q))
RLess(p, q) == p[1] * q[2] < q[1] * p[2]
RGeq(p, q) == ~RLess(p, q)

\* f itself, tabulated: TLC keeps a function constructor unevaluated and would
\* recompute an entry at each use
Tab(f) == f @@ <<>>

(***************************************************************************)
(* Arrays written in place.  numpy arrays are passed by reference, so a    *)
(* statement such as a += b or a[i] = b changes the array the name a is    *)
(* bound to, which may be an array of the caller.  The stores of a call    *)
(* list, for each local name the call writes through, the array the name   *)
(* is bound to ("new" for an array the call created itself, otherwise the  *)
(* caller's array: "dout", "cache", or a member of the cache tuple) and    *)
(* the value that array is left with.                                      *)
(***************************************************************************)
Store(name, to, value) == [name |-> name, to |-> to, value |-> value]

RECURSIVE StoredTo(_, _, _)
\* the value of the caller's array obj after the call: that of the last store
\* to it, or the value it had
StoredTo(obj, value, stores) ==
  IF stores = <<>> THEN value
  ELSE IF stores[Len(stores)].to = obj THEN stores[Len(stores)].value
  ELSE StoredTo(obj, value, SubSeq(stores, 1, Len(stores) - 1))

\* the cache tuple after the call, member by member
CacheAfter(cache, stores) ==
  IF cache.kind = "tuple" THEN [f \in DOMAIN cache |-> StoredTo(f, cache[f], stores)]
  ELSE cache

(***************************************************************************)
(* ReLU (layers.py 64-109).  A tensor of any shape is its flattened        *)
(* sequence of elements: both passes are elementwise.                      *)
(***************************************************************************)
ReluLen == 3
ReluVals == {-1, 0, 2}
ReluDoutVals == {-2, 1, 3}

NoTensor == <<>>

\* np.maximum(0, x)
np_maximum0(x) == [i \in DOMAIN x |-> IF x[i] > 0 THEN x[i] ELSE 0]

\* out = np.maximum(0, x); cache = x
relu_forward(x) == [out |-> np_maximum0(x), cache |-> x]

\* a mutated relu_backward: the gradient also passes where the input is 0
relu_backward_geq(dout, cache) ==
  [i \in DOMAIN cache |-> (IF cache[i] >= 0 THEN 1 ELSE 0) * dout[i]]

\* dx = (cache > 0); dx = dx * dout
relu_backward(dout, cache) ==
  [i \in DOMAIN cache |-> (IF cache[i] > 0 THEN 1 ELSE 0) * dout[i]]

\* dx = (cache > 0) and dx = dx * dout bind dx to new arrays: no store
relu_backward_stores(dout, cache) == <<>>

ReluInit ==
  /\ relu_pc = "init"
  /\ relu_out = NoTensor
  /\ relu_cache = NoTensor
  /\ relu_dout = NoTensor
  /\ relu_dx = NoTensor

ReluForward ==
  \E x \in [1..ReluLen -> ReluVals] :
    /\ relu_pc' = "forward"
    /\ relu_out' = relu_forward(x).out
    /\ relu_cache' = relu_forward(x).cache
    /\ relu_dout' = NoTensor
    /\ relu_dx' = NoTensor

\* relu_backward(dout, cache) with the arrays relu_cache and d of the caller
ReluBackwardCall(d) ==
  \E stores \in {relu_backward_stores(d, relu_cache)} :
  /\ relu_dx' = relu_backward(d, relu_cache)
  /\ relu_dout' = StoredTo("dout", d, stores)
  /\ relu_cache' = StoredTo("cache", relu_cache, stores)
  /\ UNCHANGED relu_out

ReluBackward ==
  /\ relu_pc # "init"
  /\ relu_pc' = "backward"
  /\ \E dout \in [1..ReluLen -> ReluDoutVals] : ReluBackwardCall(dout)

\* the caller calls relu_backward once more with the same dout and cache
ReluBackwardAgain ==
  /\ relu_pc = "backward"
  /\ relu_pc' = "again"
  /\ ReluBackwardCall(relu_dout)

(***************************************************************************)
(* Numbers of the form a + b*sqrt(r): <<a, b, r>>, a, b, r rationals.      *)
(* Canonical form: b = 0 implies r = 1, and r is never the square of a     *)
(* rational unless b = 0, so two values over one radicand are equal        *)
(* numbers exactly when they are equal tuples.                             *)
(***************************************************************************)
RECURSIVE ISqrtIn(_, _, _)
\* the largest k in lo..hi with k*k <= n (lo*lo <= n is given)
ISqrtIn(n, lo, hi) ==
  IF lo >= hi THEN lo
  ELSE LET mid == (lo + hi + 1) \div 2
       IN  IF mid * mid <= n THEN ISqrtIn(n, mid, hi) ELSE ISqrtIn(n, lo, mid - 1)
ISqrt(n) == ISqrtIn(n, 0, IF n < 46340 THEN n ELSE 46340)
IsSquare(n) == ISqrt(n) * ISqrt(n) = n

Q(a, b, r) == IF b = RZero THEN <<a, RZero, ROne>> ELSE <<a, b, r>>
QR(p) == <<p, RZero, ROne>>
QInt(n) == QR(RInt(n))
QZero == QInt(0)
\* the radicand two operands share
QRad(u, v) == IF u[2] # RZero THEN u[3] ELSE v[3]
QNeg(u) == <<RNeg(u[1]), RNeg(u[2]), u[3]>>
QAdd(u, v) ==
  IF u[2] = RZero /\ v[2] = RZero THEN QR(RAdd(u[1], v[1]))
  ELSE Q(RAdd(u[1], v[1]), RAdd(u[2], v[2]), QRad(u, v))
QSub(u, v) == QAdd(u, QNeg(v))
QMul(u, v) ==
  IF u[2] = RZero /\ v[2] = RZero THEN QR(RMul(u[1], v[1]))
  ELSE LET r == QRad(u, v)
       IN  Q(RAdd(RMul(u[1], v[1]), RMul(RMul(u[2], v[2]), r)),
             RAdd(RMul(u[1], v[2]), RMul(u[2], v[1])), r)
\* 1/(a + b sqrt r) = (a - b sqrt r) / (a^2 - b^2 r)
QInv(u) ==
  IF u[2] = RZero THEN QR(RInv(u[1]))
  ELSE LET den == RSub(RMul(u[1], u[1]), RMul(RMul(u[2], u[2]), u[3]))
       IN  Q(RDiv(u[1], den), RNeg(RDiv(u[2], den)), u[3])
QDiv(u, v) == QMul(u, QInv(v))
\* np.sqrt(r), r ** 0.5 for a rational r >= 0
np_sqrt(r) ==
  IF IsSquare(r[1]) /\ IsSquare(r[2])
  THEN QR(Rat(ISqrt(r[1]), ISqrt(r[2])))
  ELSE <<RZero, ROne, r>>

RECURSIVE QSumTo(_, _)
\* np.sum over the first n entries of a sequence
QSumTo(f, n) == IF n = 0 THEN QZero ELSE QAdd(QSumTo(f, n - 1), f[n])
\* np.sum(m, axis=0)[d] for a matrix m of N rows
SumAxis0(m, N, d) == QSumTo([n \in 1..N |-> m[n][d]], N)

(***************************************************************************)
(* Batch normalisation (layers.py 112-341).  x is a sequence of N rows of  *)
(* D entries; bn_param is the caller's dictionary, a function on the keys  *)
(* it holds.                                                               *)
(***************************************************************************)
dict_get(d, k, default) == IF k \in DOMAIN d THEN d[k] ELSE default
dict_set(d, k, v) == [j \in DOMAIN d \cup {k} |-> IF j = k THEN v ELSE d[j]]

\* bn_param.get('eps', 1e-5), bn_param.get('momentum', 0.9)
DefaultEpsDen == 100000
DefaultEps == Rat(1, DefaultEpsDen)
DefaultMomentum == Rat(9, 10)

NoCache == [kind |-> "None"]
MaskNone == [kind |-> "None"]
Unset == [kind |-> "unset"]
Array(data) == [kind |-> "array", data |-> data]
ReturnedNone == [kind |-> "None"]
NoOut == <<>>

np_zeros(D) == [d \in 1..D |-> QZero]

\* a mutated running-statistics update: momentum weighs the batch statistic
running_update_swapped(momentum, running, sample) ==
  QAdd(QMul(QSub(QInt(1), momentum), running), QMul(momentum, sample))

\* momentum * running + (1 - momentum) * sample
running_update(momentum, running, sample) ==
  QAdd(QMul(momentum, running), QMul(QSub(QInt(1), momentum), sample))

batchnorm_forward_train(x, gamma, beta, param, eps, momentum, running_mean, running_var) ==
  LET N == Len(x)
      D == Len(x[1])
      Ns == 1..N
      Ds == 1..D
      xq == Tab([n \in Ns |-> [d \in Ds |-> QInt(x[n][d])]])
      \* 1. sample mean
      sample_mean == Tab([d \in Ds |-> QDiv(SumAxis0(xq, N, d), QInt(N))])
      \* 2. x - sample_mean
      x_mean == Tab([n \in Ns |-> [d \in Ds |-> QSub(xq[n][d], sample_mean[d])]])
      \* 3. x_mean ** 2
      x_mean_squ == Tab([n \in Ns |-> [d \in Ds |-> QMul(x_mean[n][d], x_mean[n][d])]])
      \* 4. sample_var
      sample_var == Tab([d \in Ds |-> QDiv(SumAxis0(x_mean_squ, N, d), QInt(N))])
      \* 5. (sample_var + eps) ** 0.5
      sample_var_sqrt == Tab([d \in Ds |-> np_sqrt(QAdd(sample_var[d], eps)[1])])
      \* 6. x_hat
      x_hat == Tab([n \in Ns |-> [d \in Ds |-> QDiv(x_mean[n][d], sample_var_sqrt[d])]])
      \* 7. out
      out == Tab([n \in Ns |-> [d \in Ds |->
                QAdd(QMul(QInt(gamma[d]), x_hat[n][d]), QInt(beta[d]))]])
      new_mean == Tab([d \in Ds |-> running_update(momentum, running_mean[d], sample_mean[d])])
      new_var == Tab([d \in Ds |-> running_update(momentum, running_var[d], sample_var[d])])
  IN  [err |-> "none",
       out |-> out,
       cache |-> [kind |-> "tuple", x |-> xq, N |-> N, sample_mean |-> sample_mean,
                  x_mean |-> x_mean, x_mean_squ |-> x_mean_squ,
                  sample_var |-> sample_var, sample_var_sqrt |-> sample_var_sqrt,
                  x_hat |-> x_hat,
                  gamma |-> [d \in Ds |-> QInt(gamma[d])],
                  beta |-> [d \in Ds |-> QInt(beta[d])], eps |-> eps],
       param |-> dict_set(dict_set(param, "running_mean", new_mean),
                          "running_var", new_var)]

\* a mutated test branch: it returns the intermediates of the batch as the
\* train branch does
batchnorm_forward_test_cached(x, gamma, beta, param, eps, running_mean, running_var) ==
  LET Ns == 1..Len(x)
      Ds == 1..Len(x[1])
      x_hat == Tab([n \in Ns |-> [d \in Ds |->
                 QDiv(QSub(QInt(x[n][d]), running_mean[d]),
                      np_sqrt(QAdd(running_var[d], eps)[1]))]])
  IN  [err |-> "none",
       out |-> [n \in Ns |-> [d \in Ds |->
                  QAdd(QMul(QInt(gamma[d]), x_hat[n][d]), QInt(beta[d]))]],
       cache |-> batchnorm_forward_train(x, gamma, beta, param, eps,
                                         QR(DefaultMomentum), running_mean,
                                         running_var).cache,
       param |-> param]

batchnorm_forward_test(x, gamma, beta, param, eps, running_mean, running_var) ==
  LET Ns == 1..Len(x)
      Ds == 1..Len(x[1])
      x_hat == Tab([n \in Ns |-> [d \in Ds |->
                 QDiv(QSub(QInt(x[n][d]), running_mean[d]),
                      np_sqrt(QAdd(running_var[d], eps)[1]))]])
  IN  [err |-> "none",
       out |-> [n \in Ns |-> [d \in Ds |->
                  QAdd(QMul(QInt(gamma[d]), x_hat[n][d]), QInt(beta[d]))]],
       cache |-> NoCache,
       param |-> param]

\* a mutated batchnorm_forward: the test branch stores the statistics it read
batchnorm_forward_test_store(x, gamma, beta, param) ==
  LET D == Len(x[1])
      eps == QR(dict_get(param, "eps", DefaultEps))
      momentum == QR(dict_get(param, "momentum", DefaultMomentum))
      running_mean == dict_get(param, "running_mean", np_zeros(D))
      running_var == dict_get(param, "running_var", np_zeros(D))
      r == batchnorm_forward_test(x, gamma, beta, param, eps, running_mean, running_var)
  IN  IF param["mode"] = "train"
      THEN batchnorm_forward_train(x, gamma, beta, param, eps, momentum,
                                   running_mean, running_var)
      ELSE IF param["mode"] = "test"
      THEN [r EXCEPT !.param = dict_set(dict_set(param, "running_mean", running_mean),
                                        "running_var", running_var)]
      ELSE [err |-> "ValueError", out |-> NoOut, cache |-> NoCache, param |-> param]

\* a mutated batchnorm_forward: an unrecognised mode is treated as 'test'
batchnorm_forward_lenient(x, gamma, beta, param) ==
  LET D == Len(x[1])
      eps == QR(dict_get(param, "eps", DefaultEps))
      momentum == QR(dict_get(param, "momentum", DefaultMomentum))
      running_mean == dict_get(param, "running_mean", np_zeros(D))
      running_var == dict_get(param, "running_var", np_zeros(D))
  IN  IF param["mode"] = "train"
      THEN batchnorm_forward_train(x, gamma, beta, param, eps, momentum,
                                   running_mean, running_var)
      ELSE batchnorm_forward_test(x, gamma, beta, param, eps, running_mean, running_var)

\* the result of one call: what is raised, what is returned, and bn_param after it
batchnorm_forward(x, gamma, beta, param) ==
  LET D == Len(x[1])
      eps == QR(dict_get(param, "eps", DefaultEps))
      momentum == QR(dict_get(param, "momentum", DefaultMomentum))
      running_mean == dict_get(param, "running_mean", np_zeros(D))
      running_var == dict_get(param, "running_var", np_zeros(D))
  IN  IF param["mode"] = "train"
      THEN batchnorm_forward_train(x, gamma, beta, param, eps, momentum,
                                   running_mean, running_var)
      ELSE IF param["mode"] = "test"
      THEN batchnorm_forward_test(x, gamma, beta, param, eps, running_mean, running_var)
      ELSE [err |-> "ValueError", out |-> NoOut, cache |-> NoCache, param |-> param]


NoGrad == [kind |-> "None"]
Raised(e) == [kind |-> "raised", err |-> e]

\* (sample_var + eps) ** (-0.5)
pow_neg_half(v) == QInv(np_sqrt(v[1]))

\* a mutated batchnorm_backward: the gradient through the batch mean is dropped
batchnorm_backward_no_mean(dout, cache) ==
  IF cache.kind # "tuple" THEN Raised("TypeError")
  ELSE
  LET N == cache.N
      Ns == 1..N
      Ds == DOMAIN cache.gamma
      dq == Tab([n \in Ns |-> [d \in Ds |-> QInt(dout[n][d])]])
      dx_hat == Tab([n \in Ns |-> [d \in Ds |-> QMul(dq[n][d], cache.gamma[d])]])
      dx_mean0 == Tab([n \in Ns |-> [d \in Ds |-> QDiv(dx_hat[n][d], cache.sample_var_sqrt[d])]])
      dsample_var_sqrt == Tab([d \in Ds |-> SumAxis0(
          [n \in Ns |-> [e \in Ds |->
             QDiv(QMul(QMul(dx_hat[n][e], QInt(-1)), cache.x_mean[n][e]),
                  QMul(cache.sample_var_sqrt[e], cache.sample_var_sqrt[e]))]], N, d)])
      dsample_var == Tab([d \in Ds |->
          QMul(QMul(dsample_var_sqrt[d], QR(Rat(1, 2))),
               pow_neg_half(QAdd(cache.sample_var[d], cache.eps)))])
      dx_mean == Tab([n \in Ns |-> [d \in Ds |->
          QAdd(dx_mean0[n][d],
               QMul(QMul(QDiv(dsample_var[d], QInt(N)), QInt(2)), cache.x_mean[n][d]))]])
  IN  [kind |-> "grads",
       dx |-> dx_mean,
       dgamma |-> [d \in Ds |-> SumAxis0([n \in Ns |-> [e \in Ds |->
                     QMul(dq[n][e], cache.x_hat[n][e])]], N, d)],
       dbeta |-> [d \in Ds |-> SumAxis0(dq, N, d)]]

\* the staged backward pass, node by node (7. to 1.)
batchnorm_backward(dout, cache) ==
  IF cache.kind # "tuple" THEN Raised("TypeError")
  ELSE
  LET N == cache.N
      Ns == 1..N
      Ds == DOMAIN cache.gamma
      dq == Tab([n \in Ns |-> [d \in Ds |-> QInt(dout[n][d])]])
      \* 7.
      dgamma == Tab([d \in Ds |-> SumAxis0([n \in Ns |-> [e \in Ds |->
                     QMul(dq[n][e], cache.x_hat[n][e])]], N, d)])
      dbeta == Tab([d \in Ds |-> SumAxis0(dq, N, d)])
      dx_hat == Tab([n \in Ns |-> [d \in Ds |-> QMul(dq[n][d], cache.gamma[d])]])
      \* 6.
      dx_mean0 == Tab([n \in Ns |-> [d \in Ds |-> QDiv(dx_hat[n][d], cache.sample_var_sqrt[d])]])
      dsample_var_sqrt == Tab([d \in Ds |-> SumAxis0(
          [n \in Ns |-> [e \in Ds |->
             QDiv(QMul(QMul(dx_hat[n][e], QInt(-1)), cache.x_mean[n][e]),
                  QMul(cache.sample_var_sqrt[e], cache.sample_var_sqrt[e]))]], N, d)])
      \* 5.
      dsample_var == Tab([d \in Ds |->
          QMul(QMul(dsample_var_sqrt[d], QR(Rat(1, 2))),
               pow_neg_half(QAdd(cache.sample_var[d], cache.eps)))])
      \* 4.
      dx_mean_squ == Tab([n \in Ns |-> [d \in Ds |-> QDiv(QMul(dsample_var[d], QInt(1)), QInt(N))]])
      \* 3. dx_mean += dx_mean_squ * 2. * x_mean
      dx_mean == Tab([n \in Ns |-> [d \in Ds |->
          QAdd(dx_mean0[n][d],
               QMul(QMul(dx_mean_squ[n][d], QInt(2)), cache.x_mean[n][d]))]])
      \* 2. dx = dx_mean
      dsample_mean == Tab([d \in Ds |-> SumAxis0(
          [n \in Ns |-> [e \in Ds |-> QMul(dx_mean[n][e], QInt(-1))]], N, d)])
      \* 1. dx += dsample_mean * np.ones(x.shape) / float(N)
      dx == Tab([n \in Ns |-> [d \in Ds |->
          QAdd(dx_mean[n][d], QDiv(QMul(dsample_mean[d], QInt(1)), QInt(N)))]])
  IN  [kind |-> "grads", dx |-> dx, dgamma |-> dgamma, dbeta |-> dbeta]

\* the closed form
batchnorm_backward_alt(dout, cache) ==
  IF cache.kind # "tuple" THEN Raised("TypeError")
  ELSE
  LET N == cache.N
      Ns == 1..N
      Ds == DOMAIN cache.gamma
      dq == Tab([n \in Ns |-> [d \in Ds |-> QInt(dout[n][d])]])
      dgamma == Tab([d \in Ds |-> SumAxis0([n \in Ns |-> [e \in Ds |->
                     QMul(dq[n][e], cache.x_hat[n][e])]], N, d)])
      dbeta == Tab([d \in Ds |-> SumAxis0(dq, N, d)])
      f == cache.sample_mean
      g == cache.sample_var
      df == QDiv(QInt(1), QInt(N))
      xf == Tab([n \in Ns |-> [d \in Ds |-> QSub(cache.x[n][d], f[d])]])
      sum_dout_xf == Tab([d \in Ds |-> SumAxis0([n \in Ns |-> [e \in Ds |->
                        QMul(dq[n][e], xf[n][e])]], N, d)])
      dx == Tab([n \in Ns |-> [d \in Ds |->
          QMul(QMul(QMul(df, cache.gamma[d]), pow_neg_half(QAdd(g[d], cache.eps))),
               QSub(QSub(QMul(QInt(N), dq[n][d]), dbeta[d]),
                    QMul(QDiv(xf[n][d], QAdd(g[d], cache.eps)), sum_dout_xf[d])))]])
  IN  [kind |-> "grads", dx |-> dx, dgamma |-> dgamma, dbeta |-> dbeta]

(***************************************************************************)
(* The caller of batch normalisation: it owns bn_param, sets its 'mode'    *)
(* and calls batchnorm_forward any number of times, then the two backward  *)
(* passes on the cache the last forward call returned.                     *)
(***************************************************************************)
\* a mutated batchnorm_backward: dx_hat is dout itself, scaled in place by
\* gamma (dx_hat = dout; dx_hat *= gamma)
batchnorm_backward_stores_dout(dout, cache, grad) ==
  IF grad.kind # "grads" THEN <<>>
  ELSE <<Store("dx_hat", "dout",
               [n \in DOMAIN dout |-> [d \in DOMAIN dout[n] |->
                  dout[n][d] * cache.gamma[d][1][1]]])>>

\* the arrays batchnorm_backward writes in place: dx_mean, bound to the new
\* array dx_hat / sample_var_sqrt before dx_mean += ..., and dx, which is
\* dx_mean under another name when dx += ... adds to it; nothing is written
\* once the unpacking of the cache has raised
batchnorm_backward_stores(dout, cache, grad) ==
  IF grad.kind # "grads" THEN <<>>
  ELSE <<Store("dx_mean", "new", grad.dx), Store("dx", "new", grad.dx)>>

\* batchnorm_backward_alt binds every name once, to a new array: no store
batchnorm_backward_alt_stores(dout, cache, grad) == <<>>

BNMaxCalls == 2
BNModes == {"train", "test", "valid"}
BNVals == {-1, 0, 2}
BNGammas == {1, 2}
BNDoutVals == {-1, 2}
BNSeqVals == {0, 2}
BNBatch(N, D, vals) == [1..N -> [1..D -> vals]]

\* the dictionaries a caller starts with: 'mode' is required, the rest optional
BNInitParams(D) ==
  LET base == { [mode |-> "train"],
                [mode |-> "train", eps |-> Rat(1, 1)],
                [mode |-> "train", momentum |-> Rat(1, 2)],
                [mode |-> "train", eps |-> Rat(1, 2), momentum |-> Rat(1, 4),
                 running_mean |-> [d \in 1..D |-> QInt(1)]] }
  IN  base

BNIdle ==
  /\ bn_param = [mode |-> "train"]
  /\ bn_pc = "init"
  /\ bn_x = <<>>
  /\ bn_prev = [mode |-> "train"]
  /\ bn_err = "none"
  /\ bn_out = NoOut
  /\ bn_cache = NoCache
  /\ bn_calls = 0
  /\ bn_dout = <<>>
  /\ bn_grad = NoGrad
  /\ bn_grad_alt = NoGrad

BNInit ==
  /\ bn_param \in BNInitParams(1)
  /\ bn_pc = "init"
  /\ bn_x = <<>>
  /\ bn_prev = bn_param
  /\ bn_err = "none"
  /\ bn_out = NoOut
  /\ bn_cache = NoCache
  /\ bn_calls = 0
  /\ bn_dout = <<>>
  /\ bn_grad = NoGrad
  /\ bn_grad_alt = NoGrad

\* the caller writes bn_param['mode']
BNSetMode ==
  \E m \in BNModes :
    /\ bn_param["mode"] # m
    /\ bn_param' = dict_set(bn_param, "mode", m)
    /\ bn_pc' = "set"
    /\ UNCHANGED <<bn_x, bn_prev, bn_err, bn_out, bn_cache, bn_calls, bn_dout,
                   bn_grad, bn_grad_alt>>

NoResult == [kind |-> "unbound"]

BNForwardCall(x, gamma, beta) ==
  LET r == batchnorm_forward(x, gamma, beta, bn_param) IN
  /\ bn_calls < BNMaxCalls
  /\ bn_calls' = bn_calls + 1
  /\ bn_pc' = "forward"
  /\ bn_x' = x
  /\ bn_prev' = bn_param
  /\ bn_param' = r.param
  /\ bn_err' = r.err
  /\ bn_out' = IF r.err = "none" THEN r.out ELSE NoOut
  /\ bn_cache' = IF r.err = "none" THEN r.cache ELSE NoResult
  /\ bn_dout' = <<>>
  /\ bn_grad' = NoGrad
  /\ bn_grad_alt' = NoGrad

\* a sequence of forward calls on one bn_param, D = 1
BatchnormForward ==
  \E N \in 1..2 : \E x \in BNBatch(N, 1, BNSeqVals) :
    BNForwardCall(x, <<2>>, <<1>>)

\* one forward call on a batch of any of the shapes of the backward checks
BNBackBatches ==
  BNBatch(2, 1, BNVals) \cup BNBatch(3, 1, BNVals) \cup BNBatch(2, 2, BNSeqVals)
BNBackInit ==
  /\ \E m \in {"train", "test"} : \E e \in {Rat(1, 1), Rat(1, 2)} :
       bn_param = [mode |-> m, eps |-> e]
  /\ bn_pc = "init"
  /\ bn_x = <<>>
  /\ bn_prev = bn_param
  /\ bn_err = "none"
  /\ bn_out = NoOut
  /\ bn_cache = NoCache
  /\ bn_calls = 0
  /\ bn_dout = <<>>
  /\ bn_grad = NoGrad
  /\ bn_grad_alt = NoGrad

BNBackForward ==
  /\ bn_pc = "init"
  /\ \E x \in BNBackBatches :
       \E gamma \in [1..Len(x[1]) -> BNGammas] :
         BNForwardCall(x, gamma, [d \in 1..Len(x[1]) |-> 1])

\* the caller draws the upstream gradient it will pass to both backward passes
BNChooseDout ==
  /\ bn_pc \in {"forward", "backward"}
  /\ bn_err = "none"
  /\ bn_dout = <<>>
  /\ \E dout \in [1..Len(bn_x) -> [1..Len(bn_x[1]) -> BNDoutVals]] :
       bn_dout' = dout
  /\ bn_pc' = "backward"
  /\ bn_grad' = NoGrad
  /\ bn_grad_alt' = NoGrad
  /\ UNCHANGED <<bn_param, bn_x, bn_prev, bn_err, bn_out, bn_cache, bn_calls>>

BatchnormBackward ==
  /\ bn_pc = "backward"
  /\ bn_grad = NoGrad
  /\ \E grad \in {batchnorm_backward(bn_dout, bn_cache)} :
     \E stores \in {batchnorm_backward_stores(bn_dout, bn_cache, grad)} :
       /\ bn_grad' = grad
       /\ bn_dout' = StoredTo("dout", bn_dout, stores)
       /\ bn_cache' = CacheAfter(bn_cache, stores)
  /\ UNCHANGED <<bn_param, bn_pc, bn_x, bn_prev, bn_err, bn_out, bn_calls, bn_grad_alt>>

BatchnormBackwardAlt ==
  /\ bn_pc = "backward"
  /\ bn_grad_alt = NoGrad
  /\ \E grad \in {batchnorm_backward_alt(bn_dout, bn_cache)} :
     \E stores \in {batchnorm_backward_alt_stores(bn_dout, bn_cache, grad)} :
       /\ bn_grad_alt' = grad
       /\ bn_dout' = StoredTo("dout", bn_dout, stores)
       /\ bn_cache' = CacheAfter(bn_cache, stores)
  /\ UNCHANGED <<bn_param, bn_pc, bn_x, bn_prev, bn_err, bn_out, bn_calls, bn_grad>>

\* the caller calls both backward passes once more with the same dout and cache
BatchnormBackwardAgain ==
  /\ bn_pc = "backward"
  /\ bn_grad # NoGrad
  /\ bn_grad_alt # NoGrad
  /\ \E grad \in {batchnorm_backward(bn_dout, bn_cache)} :
     \E stores \in {batchnorm_backward_stores(bn_dout, bn_cache, grad)} :
     \E dout1 \in {StoredTo("dout", bn_dout, stores)} :
     \E cache1 \in {CacheAfter(bn_cache, stores)} :
     \E grad_alt \in {batchnorm_backward_alt(dout1, cache1)} :
     \E stores_alt \in {batchnorm_backward_alt_stores(dout1, cache1, grad_alt)} :
       /\ bn_grad' = grad
       /\ bn_grad_alt' = grad_alt
       /\ bn_dout' = StoredTo("dout", dout1, stores_alt)
       /\ bn_cache' = CacheAfter(cache1, stores_alt)
  /\ bn_pc' = "again"
  /\ UNCHANGED <<bn_param, bn_x, bn_prev, bn_err, bn_out, bn_calls>>

(***************************************************************************)
(* Layers at rest: the state of a layer no caller has used yet.            *)
(***************************************************************************)
DoIdle ==
  /\ rng = 0
  /\ do_pc = "init"
  /\ do_err = "none"
  /\ do_x = <<>>
  /\ do_param = [mode |-> "test"]
  /\ do_out = Unset
  /\ do_cache = NoCache
  /\ do_dout = <<>>
  /\ do_dx = Unset
  /\ do_seen = <<>>
  /\ do_calls = 0

MpIdle ==
  /\ mp_pc = "init"
  /\ mp_out = <<>>
  /\ mp_cache = NoCache
  /\ mp_dout = <<>>
  /\ mp_dx = <<>>

CvIdle ==
  /\ cv_pc = "init"
  /\ cv_out = <<>>
  /\ cv_cache = NoCache
  /\ cv_dout = <<>>
  /\ cv_grad = NoGrad

AfIdle ==
  /\ af_pc = "init"
  /\ af_out = <<>>
  /\ af_cache = NoCache
  /\ af_dout = <<>>
  /\ af_grad = NoGrad

SvIdle ==
  /\ sv_pc = "init"
  /\ sv_x = <<>>
  /\ sv_y = <<>>
  /\ sv_eps = Unset
  /\ sv_loss = Unset
  /\ sv_dx = Unset

(***************************************************************************)
(* Specifications, one per layer                                           *)
(***************************************************************************)
InitRelu == ReluInit /\ BNIdle /\ DoIdle /\ MpIdle /\ CvIdle /\ AfIdle /\ SvIdle
NextRelu ==
  \/ ReluForward /\ UNCHANGED <<bnVars, doVars, mpVars, cvVars, afVars, svVars>>
  \/ ReluBackward /\ UNCHANGED <<bnVars, doVars, mpVars, cvVars, afVars, svVars>>
SpecRelu == InitRelu /\ [][NextRelu]_vars

InitBN == ReluInit /\ BNInit /\ DoIdle /\ MpIdle /\ CvIdle /\ AfIdle /\ SvIdle
NextBN ==
  \/ BNSetMode /\ UNCHANGED <<reluVars, doVars, mpVars, cvVars, afVars, svVars>>
  \/ BatchnormForward /\ UNCHANGED <<reluVars, doVars, mpVars, cvVars, afVars, svVars>>
SpecBN == InitBN /\ [][NextBN]_vars

InitBNBack == ReluInit /\ BNBackInit /\ DoIdle /\ MpIdle /\ CvIdle /\ AfIdle /\ SvIdle
NextBNBack ==
  \/ BNBackForward /\ UNCHANGED <<reluVars, doVars, mpVars, cvVars, afVars, svVars>>
  \/ BNChooseDout /\ UNCHANGED <<reluVars, doVars, mpVars, cvVars, afVars, svVars>>
  \/ BatchnormBackward /\ UNCHANGED <<reluVars, doVars, mpVars, cvVars, afVars, svVars>>
  \/ BatchnormBackwardAlt /\ UNCHANGED <<reluVars, doVars, mpVars, cvVars, afVars, svVars>>
SpecBNBack == InitBNBack /\ [][NextBNBack]_vars

(***************************************************************************)
(* Dropout (layers.py 344-419).  np.random is one generator shared by      *)
(* every call: rng is its state.  The generator is a deterministic step    *)
(* on RngMod states; np.random.seed puts it in the state the seed names    *)
(* and each number drawn is state / RngMod, in [0, 1).  A tensor of any    *)
(* shape is its flattened sequence; x carries its dtype.                   *)
(***************************************************************************)
RngMod == 8
np_random_seed(seed) == seed % RngMod
RngStep(state) == (5 * state + 3) % RngMod
RECURSIVE RngAfter(_, _)
\* the state after k numbers were drawn
RngAfter(state, k) == IF k = 0 THEN state ELSE RngStep(RngAfter(state, k - 1))
\* np.random.rand(L): the i-th number drawn from `state`
np_random_rand(state, i) == Rat(RngAfter(state, i - 1), RngMod)

\* C-style conversion of a rational to an integer: towards zero
Trunc(r) == IF r[1] >= 0 THEN r[1] \div r[2] ELSE -((-r[1]) \div r[2])
\* out.astype(dtype, copy=False) on one element
astype(r, dtype) == IF dtype = "int" THEN RInt(Trunc(r)) ELSE r


\* a mutated dropout_forward: a seed in dropout_param is not used
dropout_forward_unseeded(x, dropout_param, state) ==
  LET p == dropout_param["p"]
      mode == dropout_param["mode"]
      L == Len(x.data)
      mask == [i \in 1..L |-> RGeq(np_random_rand(state, i), p)]
  IN  IF mode = "train"
      THEN [err |-> "none", rng |-> RngAfter(state, L),
            out |-> Array([i \in 1..L |->
                      astype(RDiv(RMul(RInt(x.data[i]),
                                       IF mask[i] THEN ROne ELSE RZero),
                                  RSub(ROne, p)), x.dtype)]),
            mask |-> Array(mask)]
      ELSE IF mode = "test"
      THEN [err |-> "none", rng |-> state,
            out |-> Array([i \in 1..L |-> astype(RInt(x.data[i]), x.dtype)]),
            mask |-> MaskNone]
      ELSE [err |-> "AttributeError", rng |-> state, out |-> Unset, mask |-> Unset]

\* a mutated dropout_forward: the mask keeps an element when rand > p
dropout_forward_gt(x, dropout_param, state) ==
  LET p == dropout_param["p"]
      mode == dropout_param["mode"]
      seeded == IF "seed" \in DOMAIN dropout_param
                THEN np_random_seed(dropout_param["seed"]) ELSE state
      L == Len(x.data)
      mask == [i \in 1..L |-> RLess(p, np_random_rand(seeded, i))]
  IN  IF mode = "train"
      THEN [err |-> "none", rng |-> RngAfter(seeded, L),
            out |-> Array([i \in 1..L |->
                      astype(RDiv(RMul(RInt(x.data[i]),
                                       IF mask[i] THEN ROne ELSE RZero),
                                  RSub(ROne, p)), x.dtype)]),
            mask |-> Array(mask)]
      ELSE IF mode = "test"
      THEN [err |-> "none", rng |-> seeded,
            out |-> Array([i \in 1..L |-> astype(RInt(x.data[i]), x.dtype)]),
            mask |-> MaskNone]
      ELSE [err |-> "AttributeError", rng |-> seeded, out |-> Unset, mask |-> Unset]

\* one call on generator state `state`: what is raised, the generator state
\* after it, and the (out, mask) returned
dropout_forward(x, dropout_param, state) ==
  LET p == dropout_param["p"]
      mode == dropout_param["mode"]
      \* if 'seed' in dropout_param: np.random.seed(dropout_param['seed'])
      seeded == IF "seed" \in DOMAIN dropout_param
                THEN np_random_seed(dropout_param["seed"]) ELSE state
      L == Len(x.data)
      \* mask = np.random.rand(*x.shape) >= p
      mask == [i \in 1..L |-> RGeq(np_random_rand(seeded, i), p)]
  IN  IF mode = "train"
      THEN [err |-> "none", rng |-> RngAfter(seeded, L),
            \* out = x * mask / (1. - p); out = out.astype(x.dtype, copy=False)
            out |-> Array([i \in 1..L |->
                      astype(RDiv(RMul(RInt(x.data[i]),
                                       IF mask[i] THEN ROne ELSE RZero),
                                  RSub(ROne, p)), x.dtype)]),
            mask |-> Array(mask)]
      ELSE IF mode = "test"
      THEN [err |-> "none", rng |-> seeded,
            out |-> Array([i \in 1..L |-> astype(RInt(x.data[i]), x.dtype)]),
            mask |-> MaskNone]
      \* out is None: None.astype raises AttributeError
      ELSE [err |-> "AttributeError", rng |-> seeded, out |-> Unset, mask |-> Unset]

\* a mutated dropout_backward: the gradient is not rescaled by 1/(1-p)
dropout_backward_unscaled(dout, dropout_param, mask) ==
  LET mode == dropout_param["mode"]
  IN  IF mode = "train"
      THEN (IF mask.kind # "array" THEN Raised("TypeError")
            ELSE Array([i \in DOMAIN dout |->
                          RMul(RInt(dout[i]), IF mask.data[i] THEN ROne ELSE RZero)]))
      ELSE IF mode = "test" THEN Array([i \in DOMAIN dout |-> RInt(dout[i])])
      ELSE ReturnedNone

\* dropout_backward on cache = (dropout_param, mask): the dx returned, None
\* included, or what is raised
dropout_backward(dout, dropout_param, mask) ==
  LET p == dropout_param["p"]
      mode == dropout_param["mode"]
  IN  IF mode = "train"
      \* dx = dout * mask / (1. - p); an array times None raises TypeError
      THEN (IF mask.kind # "array" THEN Raised("TypeError")
            ELSE Array([i \in DOMAIN dout |->
                          RDiv(RMul(RInt(dout[i]),
                                    IF mask.data[i] THEN ROne ELSE RZero),
                               RSub(ROne, p))]))
      ELSE IF mode = "test" THEN Array([i \in DOMAIN dout |-> RInt(dout[i])])
      \* dx = None is returned
      ELSE ReturnedNone

\* dx = dout * mask / (1. - p) binds dx to a new array and dx = dout binds it
\* to the caller's array without writing it: no store
dropout_backward_stores(dout, dropout_param, mask) == <<>>

(***************************************************************************)
(* The callers of dropout.  The cache a forward call returns holds the     *)
(* caller's dropout_param dictionary itself, not a copy: do_param is that  *)
(* dictionary and do_cache the mask beside it; do_cache.fwd_mode records   *)
(* the mode the dictionary held when forward ran, and do_seen is the log   *)
(* of the train-mode calls made so far.                                    *)
(***************************************************************************)
DoLen == 2
DoMaxCalls == 3
DoModes == {"train", "test", "valid"}
DoXVals == {-3, 1, 2}
DoDoutVals == {-1, 2}
DoPs == {Rat(0, 1), Rat(1, 4), Rat(1, 2)}
DoDtypes == {"float", "int"}
DoParams(ps, modes, seeds) ==
  { [p |-> p, mode |-> m] : p \in ps, m \in modes }
    \cup { [p |-> p, mode |-> m, seed |-> sd] : p \in ps, m \in modes, sd \in seeds }

DoInit ==
  /\ rng \in 0..(RngMod - 1)
  /\ do_pc = "init"
  /\ do_err = "none"
  /\ do_x = <<>>
  /\ do_param = [mode |-> "test"]
  /\ do_out = Unset
  /\ do_cache = NoCache
  /\ do_dout = <<>>
  /\ do_dx = Unset
  /\ do_seen = <<>>
  /\ do_calls = 0

DropoutCall(x, param) ==
  LET r == dropout_forward(x, param, rng) IN
  /\ do_calls' = do_calls + 1
  /\ do_pc' = "forward"
  /\ do_x' = x
  /\ do_param' = param
  /\ rng' = r.rng
  /\ do_err' = r.err
  /\ do_out' = r.out
  /\ do_cache' = IF r.err = "none" THEN [kind |-> "tuple", mask |-> r.mask,
                                         fwd_mode |-> param["mode"]]
                 ELSE NoResult
  /\ do_dout' = <<>>
  /\ do_dx' = Unset
  /\ do_seen' = IF r.err = "none" /\ param["mode"] = "train"
                THEN Append(do_seen, [seeded |-> "seed" \in DOMAIN param,
                                      seed |-> dict_get(param, "seed", 0),
                                      p |-> param["p"], x |-> x,
                                      mask |-> r.mask, out |-> r.out])
                ELSE do_seen

\* one forward call, any input
DropoutForward ==
  /\ do_pc = "init"
  /\ \E data \in [1..DoLen -> DoXVals] : \E dt \in DoDtypes :
       \E param \in DoParams(DoPs, DoModes, {1}) :
         DropoutCall([dtype |-> dt, data |-> data], param)

\* the caller writes dropout_param['mode'] in the dictionary the cache holds
DoSetMode ==
  /\ do_pc = "forward"
  /\ do_err = "none"
  /\ \E m \in DoModes :
       /\ do_param["mode"] # m
       /\ do_param' = dict_set(do_param, "mode", m)
  /\ do_pc' = "set"
  /\ UNCHANGED <<rng, do_err, do_x, do_out, do_cache, do_dout, do_dx, do_seen,
                 do_calls>>

\* dropout_backward(dout, cache) with the caller's array d and the cache
\* (dropout_param, mask) of do_param and do_cache
DropoutBackwardCall(d) ==
  \E stores \in {dropout_backward_stores(d, do_param, do_cache.mask)} :
  /\ do_dx' = dropout_backward(d, do_param, do_cache.mask)
  /\ do_dout' = StoredTo("dout", d, stores)
  /\ do_param' = StoredTo("dropout_param", do_param, stores)
  /\ do_cache' = [do_cache EXCEPT !.mask = StoredTo("mask", @, stores)]
  /\ UNCHANGED <<rng, do_err, do_x, do_out, do_seen, do_calls>>

DropoutBackward ==
  /\ do_pc \in {"forward", "set"}
  /\ do_err = "none"
  /\ do_pc' = "backward"
  /\ \E dout \in [1..Len(do_x.data) -> DoDoutVals] : DropoutBackwardCall(dout)

\* the caller calls dropout_backward once more with the same dout and cache
DropoutBackwardAgain ==
  /\ do_pc = "backward"
  /\ do_pc' = "again"
  /\ DropoutBackwardCall(do_dout)

\* a sequence of train-mode calls, some seeded, some not
DoSeqXs == { [dtype |-> "float", data |-> <<1, 2>>], [dtype |-> "int", data |-> <<-3, 2>>] }
DropoutSeqForward ==
  /\ do_calls < DoMaxCalls
  /\ \E x \in DoSeqXs : \E param \in DoParams({Rat(1, 4), Rat(1, 2)}, {"train"}, {1, 2}) :
       DropoutCall(x, param)

InitDropout == ReluInit /\ BNIdle /\ DoInit /\ MpIdle /\ CvIdle /\ AfIdle /\ SvIdle
NextDropout ==
  \/ DropoutForward /\ UNCHANGED <<reluVars, bnVars, mpVars, cvVars, afVars, svVars>>
  \/ DoSetMode /\ UNCHANGED <<reluVars, bnVars, mpVars, cvVars, afVars, svVars>>
  \/ DropoutBackward /\ UNCHANGED <<reluVars, bnVars, mpVars, cvVars, afVars, svVars>>
SpecDropout == InitDropout /\ [][NextDropout]_vars

NextDropoutSeq == DropoutSeqForward /\ UNCHANGED <<reluVars, bnVars, mpVars, cvVars, afVars, svVars>>
SpecDropoutSeq == InitDropout /\ [][NextDropoutSeq]_vars

(***************************************************************************)
(* Max pooling (layers.py 547-628).  A tensor of shape (N, C, H, W) is a   *)
(* record of its shape and of its entries, indexed from 0 as in the code.  *)
(***************************************************************************)
MpMaxVal == 1
MpXVals == 0..MpMaxVal
MpDoutVals == {1, 2}
\* (N, C, H, W) with pool_height, pool_width and stride
MpConfigs ==
  { [shape |-> <<1, 1, 2, 3>>, pool_height |-> 2, pool_width |-> 2, stride |-> 1],
    [shape |-> <<1, 1, 3, 2>>, pool_height |-> 2, pool_width |-> 2, stride |-> 1],
    [shape |-> <<1, 2, 2, 2>>, pool_height |-> 2, pool_width |-> 2, stride |-> 2],
    [shape |-> <<2, 1, 1, 3>>, pool_height |-> 1, pool_width |-> 2, stride |-> 2] }

Tensor4(shape, vals) ==
  [0..(shape[1] - 1) -> [0..(shape[2] - 1) -> [0..(shape[3] - 1) ->
     [0..(shape[4] - 1) -> vals]]]]

\* H_prime = 1 + (H - pool_h) / pool_s, W_prime likewise (integer division)
H_prime(shape, pool_param) == 1 + (shape[3] - pool_param.pool_height) \div pool_param.stride
W_prime(shape, pool_param) == 1 + (shape[4] - pool_param.pool_width) \div pool_param.stride

\* local = x[n, c, hs:he, ws:we], flattened in row-major order (from index 0)
Local(x, pool_param, n, c, i, j) ==
  [k \in 0..(pool_param.pool_height * pool_param.pool_width - 1) |->
     x.data[n][c][i * pool_param.stride + (k \div pool_param.pool_width)]
                 [j * pool_param.stride + (k % pool_param.pool_width)]]

RECURSIVE MaxUpTo(_, _)
\* np.max over the entries 0..k of a flattened window
MaxUpTo(local, k) ==
  IF k = 0 THEN local[0]
  ELSE LET m == MaxUpTo(local, k - 1) IN IF local[k] > m THEN local[k] ELSE m

RECURSIVE ArgmaxLastUpTo(_, _)
\* a mutated argmax: among equal maxima the last one is returned
ArgmaxLastUpTo(local, k) ==
  IF k = 0 THEN 0
  ELSE LET a == ArgmaxLastUpTo(local, k - 1) IN IF local[k] >= local[a] THEN k ELSE a

RECURSIVE ArgmaxUpTo(_, _)
\* local.argmax() over the entries 0..k: the first index of the maximum
ArgmaxUpTo(local, k) ==
  IF k = 0 THEN 0
  ELSE LET a == ArgmaxUpTo(local, k - 1) IN IF local[k] > local[a] THEN k ELSE a

max_pool_forward_naive(x, pool_param) ==
  LET Hp == H_prime(x.shape, pool_param)
      Wp == W_prime(x.shape, pool_param)
      last == pool_param.pool_height * pool_param.pool_width - 1
  IN  [out |-> [n \in 0..(x.shape[1] - 1) |-> [c \in 0..(x.shape[2] - 1) |->
                 [i \in 0..(Hp - 1) |-> [j \in 0..(Wp - 1) |->
                    MaxUpTo(Local(x, pool_param, n, c, i, j), last)]]]],
       cache |-> [kind |-> "tuple", x |-> x, pool_param |-> pool_param]]

\* x_mask[max_idx] += 1.; dout[n, c, i, j] * x_mask at input position (h, w)
\* of window (i, j): max_idx = np.unravel_index(local.argmax(), local.shape)
Contribution(x, pool_param, dout, n, c, i, j, h, w) ==
  LET local == Local(x, pool_param, n, c, i, j)
      idx == ArgmaxUpTo(local, pool_param.pool_height * pool_param.pool_width - 1)
      hs == i * pool_param.stride
      ws == j * pool_param.stride
      inside == /\ hs <= h /\ h < hs + pool_param.pool_height
                /\ ws <= w /\ w < ws + pool_param.pool_width
  IN  IF inside /\ idx \div pool_param.pool_width = h - hs
                /\ idx % pool_param.pool_width = w - ws
      THEN dout[n][c][i][j] ELSE 0

RECURSIVE Accumulate(_, _, _, _, _, _, _, _)
\* dx[n, c, h, w] after the windows 0..k of the loops over i and j (window k
\* is (i, j) = (k div W_prime, k mod W_prime)) added their part
Accumulate(x, pool_param, dout, n, c, h, w, k) ==
  IF k < 0 THEN 0
  ELSE Accumulate(x, pool_param, dout, n, c, h, w, k - 1)
       + Contribution(x, pool_param, dout, n, c,
                      k \div W_prime(x.shape, pool_param),
                      k % W_prime(x.shape, pool_param), h, w)

max_pool_backward_naive(dout, cache) ==
  LET x == cache.x
      pool_param == cache.pool_param
      windows == H_prime(x.shape, pool_param) * W_prime(x.shape, pool_param)
  IN  [n \in 0..(x.shape[1] - 1) |-> [c \in 0..(x.shape[2] - 1) |->
        [h \in 0..(x.shape[3] - 1) |-> [w \in 0..(x.shape[4] - 1) |->
           Accumulate(x, pool_param, dout, n, c, h, w, windows - 1)]]]]

\* the arrays max_pool_backward_naive writes in place: x_mask, bound to
\* np.zeros_like(local) before x_mask[max_idx] += 1., and dx, bound to
\* np.zeros(x.shape) before dx[...] += ...; local, a view of the cache's x,
\* is only read
max_pool_backward_stores(dout, cache, dx) ==
  LET x == cache.x
      pool_param == cache.pool_param
      \* the window of the last pass of the loops
      local == Local(x, pool_param, x.shape[1] - 1, x.shape[2] - 1,
                     H_prime(x.shape, pool_param) - 1, W_prime(x.shape, pool_param) - 1)
      idx == ArgmaxUpTo(local, pool_param.pool_height * pool_param.pool_width - 1)
  IN  <<Store("x_mask", "new", [k \in DOMAIN local |-> IF k = idx THEN 1 ELSE 0]),
        Store("dx", "new", dx)>>

MpInit == MpIdle

MaxPoolForward ==
  /\ mp_pc = "init"
  /\ \E cfg \in MpConfigs : \E data \in Tensor4(cfg.shape, MpXVals) :
       LET r == max_pool_forward_naive(
                  [shape |-> cfg.shape, data |-> data],
                  [pool_height |-> cfg.pool_height, pool_width |-> cfg.pool_width,
                   stride |-> cfg.stride])
       IN  /\ mp_out' = r.out
           /\ mp_cache' = r.cache
  /\ mp_pc' = "forward"
  /\ UNCHANGED <<mp_dout, mp_dx>>

\* max_pool_backward_naive(dout, cache) with the arrays mp_cache and d of the
\* caller
MaxPoolBackwardCall(d) ==
  \E dx \in {max_pool_backward_naive(d, mp_cache)} :
  \E stores \in {max_pool_backward_stores(d, mp_cache, dx)} :
    /\ mp_dx' = dx
    /\ mp_dout' = StoredTo("dout", d, stores)
    /\ mp_cache' = CacheAfter(mp_cache, stores)
    /\ UNCHANGED mp_out

MaxPoolBackward ==
  /\ mp_pc = "forward"
  /\ mp_pc' = "backward"
  /\ \E dout \in Tensor4(<<mp_cache.x.shape[1], mp_cache.x.shape[2],
                          H_prime(mp_cache.x.shape, mp_cache.pool_param),
                          W_prime(mp_cache.x.shape, mp_cache.pool_param)>>,
                        MpDoutVals) :
       MaxPoolBackwardCall(dout)

\* the caller calls max_pool_backward_naive once more with the same dout and
\* cache
MaxPoolBackwardAgain ==
  /\ mp_pc = "backward"
  /\ mp_pc' = "again"
  /\ MaxPoolBackwardCall(mp_dout)

InitMaxPool == ReluInit /\ BNIdle /\ DoIdle /\ MpInit /\ CvIdle /\ AfIdle /\ SvIdle
NextMaxPool ==
  \/ MaxPoolForward /\ UNCHANGED <<reluVars, bnVars, doVars, cvVars, afVars, svVars>>
  \/ MaxPoolBackward /\ UNCHANGED <<reluVars, bnVars, doVars, cvVars, afVars, svVars>>
SpecMaxPool == InitMaxPool /\ [][NextMaxPool]_vars

(***************************************************************************)
(* Arrays of integers.  An array is a record of its shape and of its       *)
(* entries, nested one level per axis and indexed from 0 as in the code.   *)
(* The entries are integers, on which numpy's double arithmetic is exact   *)
(* at the sizes used here.                                                 *)
(***************************************************************************)
RECURSIVE SumRange(_, _, _)
\* the sum of the entries lo..hi of a flat array, added by halves
\* (the order of the additions does not change a sum of integers)
SumRange(f, lo, hi) ==
  IF lo > hi THEN 0
  ELSE IF lo = hi THEN f[lo]
  ELSE SumRange(f, lo, (lo + hi) \div 2) + SumRange(f, (lo + hi) \div 2 + 1, hi)

\* np.sum over the entries 0..n-1 of a flat array
SumTo(f, n) == SumRange(Tab(f), 0, n - 1)

RECURSIVE Size(_)
Size(shape) == IF Len(shape) = 0 THEN 1 ELSE shape[1] * Size(Tail(shape))

\* the entries in row-major order of an array of 2, 3 or 4 axes: flatten()
Flatten(a) ==
  LET s == a.shape IN
  Tab([q \in 0..(Size(s) - 1) |->
         IF Len(s) = 2 THEN a.data[q \div s[2]][q % s[2]]
         ELSE IF Len(s) = 3
           THEN a.data[q \div (s[2] * s[3])][(q \div s[3]) % s[2]][q % s[3]]
           ELSE a.data[q \div (s[2] * s[3] * s[4])][(q \div (s[3] * s[4])) % s[2]]
                      [(q \div s[4]) % s[3]][q % s[4]]])

\* the array of a shape of 1 to 4 axes whose row-major entries are flat
Unflatten(flat, s) ==
  LET fl == Tab(flat) IN
  [shape |-> s,
   data |->
     IF Len(s) = 1 THEN Tab([i \in 0..(s[1] - 1) |-> fl[i]])
     ELSE IF Len(s) = 2
       THEN Tab([i \in 0..(s[1] - 1) |-> Tab([j \in 0..(s[2] - 1) |-> fl[i * s[2] + j]])])
     ELSE IF Len(s) = 3
       THEN Tab([i \in 0..(s[1] - 1) |-> Tab([j \in 0..(s[2] - 1) |->
               Tab([k \in 0..(s[3] - 1) |-> fl[(i * s[2] + j) * s[3] + k]])])])
       ELSE Tab([i \in 0..(s[1] - 1) |-> Tab([j \in 0..(s[2] - 1) |->
               Tab([k \in 0..(s[3] - 1) |-> Tab([l \in 0..(s[4] - 1) |->
                  fl[((i * s[2] + j) * s[3] + k) * s[4] + l]])])])])]

\* a.reshape(shape): the same entries in row-major order under another shape
reshape(a, s) == Unflatten(Flatten(a), s)

\* np.dot of an (n, k) matrix and a (k, m) matrix
np_dot(a, b) ==
  [shape |-> <<a.shape[1], b.shape[2]>>,
   data |-> [i \in 0..(a.shape[1] - 1) |-> [j \in 0..(b.shape[2] - 1) |->
               SumTo([k \in 0..(a.shape[2] - 1) |-> a.data[i][k] * b.data[k][j]],
                     a.shape[2])]]]

\* a.T of a matrix
transpose(a) ==
  [shape |-> <<a.shape[2], a.shape[1]>>,
   data |-> [j \in 0..(a.shape[2] - 1) |-> [i \in 0..(a.shape[1] - 1) |-> a.data[i][j]]]]

\* np.sum(a, axis=0) of a matrix
np_sum_axis0(a) ==
  [shape |-> <<a.shape[2]>>,
   data |-> [j \in 0..(a.shape[2] - 1) |->
               SumTo([i \in 0..(a.shape[1] - 1) |-> a.data[i][j]], a.shape[1])]]

(***************************************************************************)
(* Affine layer (layers.py 4-61)                                           *)
(***************************************************************************)
\* x.reshape(x.shape[0], -1)
reshape_rows(x) == reshape(x, <<x.shape[1], Size(Tail(x.shape))>>)

\* a mutated affine_forward: the bias is left out
affine_forward_no_bias(x, w, b) ==
  [out |-> np_dot(reshape_rows(x), w),
   cache |-> [kind |-> "tuple", x |-> x, w |-> w, b |-> b]]

affine_forward(x, w, b) ==
  LET xw == np_dot(reshape_rows(x), w) IN
  [out |-> [shape |-> xw.shape,
            data |-> [i \in 0..(xw.shape[1] - 1) |-> [j \in 0..(xw.shape[2] - 1) |->
                        xw.data[i][j] + b.data[j]]]],
   cache |-> [kind |-> "tuple", x |-> x, w |-> w, b |-> b]]

affine_backward(dout, cache) ==
  [kind |-> "grads",
   dx |-> reshape(np_dot(dout, transpose(cache.w)), cache.x.shape),
   dw |-> np_dot(transpose(reshape_rows(cache.x)), dout),
   db |-> np_sum_axis0(dout)]

(***************************************************************************)
(* Convolution (layers.py 422-544).  H_prime and W_prime are computed with *)
(* the integer division the code's "/" is on integers.                     *)
(***************************************************************************)
conv_H_prime(x, w, conv_param) ==
  1 + (x.shape[3] + 2 * conv_param.pad - w.shape[3]) \div conv_param.stride
conv_W_prime(x, w, conv_param) ==
  1 + (x.shape[4] + 2 * conv_param.pad - w.shape[4]) \div conv_param.stride

\* np.pad(x, ((0,), (0,), (pad,), (pad,)), mode='constant', constant_values=0)
np_pad(x, pad) ==
  [shape |-> <<x.shape[1], x.shape[2], x.shape[3] + 2 * pad, x.shape[4] + 2 * pad>>,
   data |-> Tab([n \in 0..(x.shape[1] - 1) |-> Tab([c \in 0..(x.shape[2] - 1) |->
               Tab([h \in 0..(x.shape[3] + 2 * pad - 1) |->
                  Tab([v \in 0..(x.shape[4] + 2 * pad - 1) |->
                     IF /\ pad <= h /\ h < pad + x.shape[3]
                        /\ pad <= v /\ v < pad + x.shape[4]
                     THEN x.data[n][c][h - pad][v - pad] ELSE 0])])])])]

\* x_pad[:, :, hs:he, ws:we]
Window(x_pad, hs, he, ws, we) ==
  [shape |-> <<x_pad.shape[1], x_pad.shape[2], he - hs, we - ws>>,
   data |-> [n \in 0..(x_pad.shape[1] - 1) |-> [c \in 0..(x_pad.shape[2] - 1) |->
               [h \in 0..(he - hs - 1) |-> [v \in 0..(we - ws - 1) |->
                  x_pad.data[n][c][hs + h][ws + v]]]]]]

\* np.tile(w[k], (N, 1, 1, 1)).flatten(): N copies of filter k, one after another
TileFlat(w, k, N) ==
  LET wk == Flatten([shape |-> Tail(w.shape), data |-> w.data[k]])
      L == Size(Tail(w.shape))
  IN  Tab([q \in 0..(N * L - 1) |-> wk[q % L]])

\* np.sum(np.split(dot, N), axis=1): the sums of the N equal parts of dot
SplitSum(dot, N, L) ==
  [n \in 0..(N - 1) |-> SumTo([q \in 0..(L - 1) |-> dot[n * L + q]], L)]

\* a mutated conv_forward_naive: the window starts at (i, j), not at
\* (i * stride, j * stride)
conv_forward_unit_stride(x, w, b, conv_param) ==
  LET N == x.shape[1]
      F == w.shape[1]
      HH == w.shape[3]
      WW == w.shape[4]
      Hp == conv_H_prime(x, w, conv_param)
      Wp == conv_W_prime(x, w, conv_param)
      L == Size(Tail(w.shape))
      x_pad == np_pad(x, conv_param.pad)
      cell == Tab([p \in (0..(Hp - 1)) \X (0..(Wp - 1)) |->
                LET tensor == Flatten(Window(x_pad, p[1], p[1] + HH, p[2], p[2] + WW))
                IN  Tab([k \in 0..(F - 1) |->
                       LET f == TileFlat(w, k, N)
                           dot == Tab([q \in 0..(N * L - 1) |-> tensor[q] * f[q]])
                           Nsplit == SplitSum(dot, N, L)
                       IN  Tab([n \in 0..(N - 1) |-> Nsplit[n] + b.data[k]])])])
  IN  [out |-> [shape |-> <<N, F, Hp, Wp>>,
                data |-> [n \in 0..(N - 1) |-> [k \in 0..(F - 1) |->
                            [i \in 0..(Hp - 1) |-> [j \in 0..(Wp - 1) |->
                               cell[<<i, j>>][k][n]]]]]],
       cache |-> [kind |-> "tuple", x |-> x, w |-> w, b |-> b,
                  conv_param |-> conv_param]]

conv_forward_naive(x, w, b, conv_param) ==
  LET N == x.shape[1]
      F == w.shape[1]
      HH == w.shape[3]
      WW == w.shape[4]
      stride == conv_param.stride
      Hp == conv_H_prime(x, w, conv_param)
      Wp == conv_W_prime(x, w, conv_param)
      L == Size(Tail(w.shape))
      x_pad == np_pad(x, conv_param.pad)
      \* the body of the loops over i, j and k: out[:, k, i, j]
      cell == Tab([p \in (0..(Hp - 1)) \X (0..(Wp - 1)) |->
                LET hs == p[1] * stride
                    ws == p[2] * stride
                    tensor == Flatten(Window(x_pad, hs, hs + HH, ws, ws + WW))
                IN  Tab([k \in 0..(F - 1) |->
                       LET f == TileFlat(w, k, N)
                           dot == Tab([q \in 0..(N * L - 1) |-> tensor[q] * f[q]])
                           Nsplit == SplitSum(dot, N, L)
                       IN  Tab([n \in 0..(N - 1) |-> Nsplit[n] + b.data[k]])])])
  IN  [out |-> [shape |-> <<N, F, Hp, Wp>>,
                data |-> [n \in 0..(N - 1) |-> [k \in 0..(F - 1) |->
                            [i \in 0..(Hp - 1) |-> [j \in 0..(Wp - 1) |->
                               cell[<<i, j>>][k][n]]]]]],
       cache |-> [kind |-> "tuple", x |-> x, w |-> w, b |-> b,
                  conv_param |-> conv_param]]

\* np.sum(weight[f, :, :, :] * mask1 * mask2, axis=(1, 2))[c] for the masks of
\* input position (h, v) and output position (hp, wp): mask1 is 1 on the row
\* h + pad - hp * stride when that is a row of the filter, mask2 likewise on
\* the column v + pad - wp * stride
MaskedSum(weight, conv_param, f, c, h, v, hp, wp) ==
  LET HH == weight.shape[3]
      WW == weight.shape[4]
      r == h + conv_param.pad - hp * conv_param.stride
      s == v + conv_param.pad - wp * conv_param.stride
      mask1 == [kh \in 0..(HH - 1) |-> IF r < HH /\ r >= 0 /\ kh = r THEN 1 ELSE 0]
      mask2 == [kw \in 0..(WW - 1) |-> IF s < WW /\ s >= 0 /\ kw = s THEN 1 ELSE 0]
  IN  SumTo([q \in 0..(HH * WW - 1) |->
               weight.data[f][c][q \div WW][q % WW] * mask1[q \div WW] * mask2[q % WW]],
            HH * WW)

\* a mutated conv_backward_naive: the padding is left out of the offsets of dx
conv_backward_no_pad(dout, cache) ==
  LET x == cache.x
      weight == cache.w
      conv_param == cache.conv_param
      unpadded == [stride |-> conv_param.stride, pad |-> 0]
      F == weight.shape[1]
      Hp == conv_H_prime(x, weight, conv_param)
      Wp == conv_W_prime(x, weight, conv_param)
      x_pad == np_pad(x, conv_param.pad)
      NHW == x.shape[1] * Hp * Wp
  IN  [kind |-> "grads",
       dx |-> [shape |-> x.shape,
               data |-> [n \in 0..(x.shape[1] - 1) |-> [c \in 0..(x.shape[2] - 1) |->
                 [h \in 0..(x.shape[3] - 1) |-> [v \in 0..(x.shape[4] - 1) |->
                    SumTo([k \in 0..(F * Hp * Wp - 1) |->
                             dout.data[n][k \div (Hp * Wp)][(k \div Wp) % Hp][k % Wp]
                             * MaskedSum(weight, unpadded, k \div (Hp * Wp), c, h, v,
                                         (k \div Wp) % Hp, k % Wp)],
                          F * Hp * Wp)]]]]],
       dw |-> [shape |-> weight.shape,
               data |-> [f \in 0..(F - 1) |-> [c \in 0..(weight.shape[2] - 1) |->
                 [h \in 0..(weight.shape[3] - 1) |-> [v \in 0..(weight.shape[4] - 1) |->
                    SumTo([k \in 0..(NHW - 1) |->
                             dout.data[k \div (Hp * Wp)][f][(k \div Wp) % Hp][k % Wp]
                             * x_pad.data[k \div (Hp * Wp)][c]
                                         [h + ((k \div Wp) % Hp) * conv_param.stride]
                                         [v + (k % Wp) * conv_param.stride]],
                          NHW)]]]]],
       db |-> [shape |-> <<F>>,
               data |-> [f \in 0..(F - 1) |->
                 SumTo([k \in 0..(NHW - 1) |->
                          dout.data[k \div (Hp * Wp)][f][(k \div Wp) % Hp][k % Wp]],
                       NHW)]]]

conv_backward_naive(dout, cache) ==
  LET x == cache.x
      weight == cache.w
      conv_param == cache.conv_param
      F == weight.shape[1]
      Hp == conv_H_prime(x, weight, conv_param)
      Wp == conv_W_prime(x, weight, conv_param)
      x_pad == np_pad(x, conv_param.pad)
      NHW == x.shape[1] * Hp * Wp
  IN  [kind |-> "grads",
       \* dx[n, :, h, w] += dout[n, f, hp, wp] * np.sum(...), in the order of
       \* the loops over f, hp and wp
       dx |-> [shape |-> x.shape,
               data |-> [n \in 0..(x.shape[1] - 1) |-> [c \in 0..(x.shape[2] - 1) |->
                 [h \in 0..(x.shape[3] - 1) |-> [v \in 0..(x.shape[4] - 1) |->
                    SumTo([k \in 0..(F * Hp * Wp - 1) |->
                             dout.data[n][k \div (Hp * Wp)][(k \div Wp) % Hp][k % Wp]
                             * MaskedSum(weight, conv_param, k \div (Hp * Wp), c, h, v,
                                         (k \div Wp) % Hp, k % Wp)],
                          F * Hp * Wp)]]]]],
       \* dw[f, c, h, w] = np.sum(dout[:, f, :, :] * x_loc), x_loc the strided
       \* slice of x_pad that starts at (h, w)
       dw |-> [shape |-> weight.shape,
               data |-> [f \in 0..(F - 1) |-> [c \in 0..(weight.shape[2] - 1) |->
                 [h \in 0..(weight.shape[3] - 1) |-> [v \in 0..(weight.shape[4] - 1) |->
                    SumTo([k \in 0..(NHW - 1) |->
                             dout.data[k \div (Hp * Wp)][f][(k \div Wp) % Hp][k % Wp]
                             * x_pad.data[k \div (Hp * Wp)][c]
                                         [h + ((k \div Wp) % Hp) * conv_param.stride]
                                         [v + (k % Wp) * conv_param.stride]],
                          NHW)]]]]],
       \* db[f] = np.sum(dout[:, f, :, :])
       db |-> [shape |-> <<F>>,
               data |-> [f \in 0..(F - 1) |->
                 SumTo([k \in 0..(NHW - 1) |->
                          dout.data[k \div (Hp * Wp)][f][(k \div Wp) % Hp][k % Wp]],
                       NHW)]]]

\* the arrays conv_backward_naive writes in place: db, dw and dx, bound to
\* np.zeros(...) before their entries are assigned or added to, and mask1 and
\* mask2, bound to np.zeros_like(weight[f]) in every pass of the loops (their
\* value is that of the last pass); x_pad, a new array as well, is only read
conv_backward_stores(dout, cache, grad) ==
  LET x == cache.x
      weight == cache.w
      conv_param == cache.conv_param
      r == (x.shape[3] - 1) + conv_param.pad
             - (conv_H_prime(x, weight, conv_param) - 1) * conv_param.stride
      s == (x.shape[4] - 1) + conv_param.pad
             - (conv_W_prime(x, weight, conv_param) - 1) * conv_param.stride
      rows == 0..(weight.shape[3] - 1)
      cols == 0..(weight.shape[4] - 1)
  IN  <<Store("db", "new", grad.db),
        Store("dw", "new", grad.dw),
        Store("mask1", "new",
              [shape |-> Tail(weight.shape),
               data |-> [c \in 0..(weight.shape[2] - 1) |-> [kh \in rows |->
                           [kw \in cols |-> IF r \in rows /\ kh = r THEN 1 ELSE 0]]]]),
        Store("mask2", "new",
              [shape |-> Tail(weight.shape),
               data |-> [c \in 0..(weight.shape[2] - 1) |-> [kh \in rows |->
                           [kw \in cols |-> IF s \in cols /\ kw = s THEN 1 ELSE 0]]]]),
        Store("dx", "new", grad.dx)>>

\* dx, dw and db are bound once each, to the new arrays np.dot and np.sum
\* return (reshape gives a view of the new array): no store
affine_backward_stores(dout, cache) == <<>>

(***************************************************************************)
(* The caller of the convolution.  The small case is drawn from every      *)
(* tensor over two values; the larger ones from a few tensors whose        *)
(* entries run through -2..2 along the row-major order.                    *)
(***************************************************************************)
CvMaxPad == 1

\* the array of a shape whose row-major entry q is ((a * q + s) mod 5) - 2
Ramp(shape, a, s) ==
  Unflatten([q \in 0..(Size(shape) - 1) |-> ((a * q + s) % 5) - 2], shape)
Ones(shape) == Unflatten([q \in 0..(Size(shape) - 1) |-> 1], shape)
Vector(seq) == [shape |-> <<Len(seq)>>, data |-> [i \in 0..(Len(seq) - 1) |-> seq[i + 1]]]

CvConfigs ==
  \* every 2x2 image, a 1x2 filter, stride 1, no padding and padding
  { [xs |-> { [shape |-> <<1, 1, 2, 2>>, data |-> d] :
                d \in Tensor4(<<1, 1, 2, 2>>, {-1, 1}) },
     ws |-> { [shape |-> <<1, 1, 1, 2>>, data |-> d] :
                d \in Tensor4(<<1, 1, 1, 2>>, {1, 2}) },
     bs |-> { Vector(<<0>>), Vector(<<1>>) },
     conv_param |-> [stride |-> 1, pad |-> p]] : p \in 0..CvMaxPad }
  \cup
  \* 1x1 filters over three channels, stride 1, no padding
  { [xs |-> { Ramp(<<2, 3, 2, 2>>, a, s) : a \in {1, 2}, s \in {0, 1} },
     ws |-> { Ramp(<<2, 3, 1, 1>>, a, 0) : a \in {1, 3} },
     bs |-> { Vector(<<1, -1>>) },
     conv_param |-> [stride |-> 1, pad |-> 0]],
  \* stride 2 with padding, and stride 2 over two images of two channels
    [xs |-> { Ramp(<<1, 1, 3, 3>>, a, s) : a \in {1, 2}, s \in {0, 3} },
     ws |-> { Ramp(<<1, 1, 3, 3>>, a, 1) : a \in {1, 2} },
     bs |-> { Vector(<<1>>) },
     conv_param |-> [stride |-> 2, pad |-> 1]],
    [xs |-> { Ramp(<<2, 2, 2, 4>>, a, 0) : a \in {1, 3} },
     ws |-> { Ramp(<<1, 2, 2, 2>>, a, 2) : a \in {1, 2} },
     bs |-> { Vector(<<-1>>) },
     conv_param |-> [stride |-> 2, pad |-> 0]],
  \* two 4x4 images of three channels, two 3x3 filters of ones, stride 1, pad 1
    [xs |-> { Ramp(<<2, 3, 4, 4>>, a, 0) : a \in {1, 2} },
     ws |-> { Ones(<<2, 3, 3, 3>>) },
     bs |-> { Vector(<<1, -2>>) },
     conv_param |-> [stride |-> 1, pad |-> 1]] }

CvInit == CvIdle

ConvForward ==
  /\ cv_pc = "init"
  /\ \E cfg \in CvConfigs : \E x \in cfg.xs : \E w \in cfg.ws : \E b \in cfg.bs :
       LET r == conv_forward_naive(x, w, b, cfg.conv_param)
       IN  /\ cv_out' = r.out
           /\ cv_cache' = r.cache
  /\ cv_pc' = "forward"
  /\ UNCHANGED <<cv_dout, cv_grad>>

\* conv_backward_naive(dout, cache) with the arrays cv_cache and d of the caller
ConvBackwardCall(d) ==
  \E grad \in {conv_backward_naive(d, cv_cache)} :
  \E stores \in {conv_backward_stores(d, cv_cache, grad)} :
    /\ cv_grad' = grad
    /\ cv_dout' = StoredTo("dout", d, stores)
    /\ cv_cache' = CacheAfter(cv_cache, stores)
    /\ UNCHANGED cv_out

ConvBackward ==
  /\ cv_pc = "forward"
  /\ cv_pc' = "backward"
  /\ \E dout \in { Ramp(cv_out.shape, a, 1) : a \in {1, 2} } : ConvBackwardCall(dout)

\* the caller calls conv_backward_naive once more with the same dout and cache
ConvBackwardAgain ==
  /\ cv_pc = "backward"
  /\ cv_pc' = "again"
  /\ ConvBackwardCall(cv_dout)

\* the caller passes every pixel of the input of a 1x1 convolution, as a row
\* of its C channels, through the affine layer:
\* affine_forward(x.transpose(0, 2, 3, 1).reshape(-1, C), w[:, :, 0, 0].T, b)
PixelRows(x) ==
  [shape |-> <<x.shape[1] * x.shape[3] * x.shape[4], x.shape[2]>>,
   data |-> [r \in 0..(x.shape[1] * x.shape[3] * x.shape[4] - 1) |->
               [c \in 0..(x.shape[2] - 1) |->
                  x.data[r \div (x.shape[3] * x.shape[4])][c]
                        [(r \div x.shape[4]) % x.shape[3]][r % x.shape[4]]]]]
FilterMatrix(w) ==
  transpose([shape |-> <<w.shape[1], w.shape[2]>>,
             data |-> [f \in 0..(w.shape[1] - 1) |-> [c \in 0..(w.shape[2] - 1) |->
                         w.data[f][c][0][0]]]])
AffinePerPixel ==
  /\ cv_pc = "forward"
  /\ af_pc = "init"
  /\ cv_cache.w.shape[3] = 1 /\ cv_cache.w.shape[4] = 1
  /\ cv_cache.conv_param = [stride |-> 1, pad |-> 0]
  /\ LET r == affine_forward(PixelRows(cv_cache.x), FilterMatrix(cv_cache.w), cv_cache.b)
     IN  /\ af_out' = r.out
         /\ af_cache' = r.cache
  /\ af_pc' = "forward"
  /\ UNCHANGED <<af_dout, af_grad>>

\* the caller of the affine layer: two inputs of shape (2, 2), three outputs
AffineForward ==
  /\ af_pc = "init"
  /\ \E x \in { Ramp(<<2, 2, 2>>, a, s) : a \in {1, 2}, s \in {0, 1} } :
     \E w \in { Ramp(<<4, 3>>, a, 1) : a \in {1, 3} } :
     \E b \in { Vector(<<1, 0, -1>>), Vector(<<0, 2, 0>>) } :
       LET r == affine_forward(x, w, b)
       IN  /\ af_out' = r.out
           /\ af_cache' = r.cache
  /\ af_pc' = "forward"
  /\ UNCHANGED <<af_dout, af_grad>>

\* affine_backward(dout, cache) with the arrays af_cache and d of the caller
AffineBackwardCall(d) ==
  \E stores \in {affine_backward_stores(d, af_cache)} :
  /\ af_grad' = affine_backward(d, af_cache)
  /\ af_dout' = StoredTo("dout", d, stores)
  /\ af_cache' = CacheAfter(af_cache, stores)
  /\ UNCHANGED af_out

AffineBackward ==
  /\ af_pc = "forward"
  /\ af_pc' = "backward"
  /\ \E dout \in { Ramp(af_out.shape, a, 2) : a \in {1, 2} } : AffineBackwardCall(dout)

\* the caller calls affine_backward once more with the same dout and cache
AffineBackwardAgain ==
  /\ af_pc = "backward"
  /\ af_pc' = "again"
  /\ AffineBackwardCall(af_dout)

InitConv == ReluInit /\ BNIdle /\ DoIdle /\ MpIdle /\ CvInit /\ AfIdle /\ SvIdle
NextConv ==
  \/ ConvForward /\ UNCHANGED <<reluVars, bnVars, doVars, mpVars, afVars, svVars>>
  \/ ConvBackward /\ UNCHANGED <<reluVars, bnVars, doVars, mpVars, afVars, svVars>>
  \/ AffinePerPixel /\ UNCHANGED <<reluVars, bnVars, doVars, mpVars, cvVars, svVars>>
SpecConv == InitConv /\ [][NextConv]_vars

(***************************************************************************)
(* SVM loss (layers.py 700-724).  The scores are floats of integer value   *)
(* and the loss and the gradient are rationals.                            *)
(***************************************************************************)
SvmDefaultEpsDen == 1000
\* def svm_loss(x, y, eps=1e-3)
SvmDefaultEps == Rat(1, SvmDefaultEpsDen)

\* a mutated svm_loss: the margin of the correct class is not set to 0
svm_loss_keep_correct(x, y, eps) ==
  LET N == x.shape[1]
      C == x.shape[2]
      margins == Tab([i \in 0..(N - 1) |-> Tab([j \in 0..(C - 1) |->
                   LET m == x.data[i][j] - x.data[i][y.data[i]] + 1
                   IN  IF m > 0 THEN m ELSE 0])])
      num_pos == Tab([i \in 0..(N - 1) |->
                   SumTo([j \in 0..(C - 1) |-> IF margins[i][j] > 0 THEN 1 ELSE 0], C)])
      denom == RAdd(RInt(N), eps)
  IN  [loss |-> RDiv(RInt(SumTo([q \in 0..(N * C - 1) |-> margins[q \div C][q % C]],
                                N * C)), denom),
       dx |-> [shape |-> x.shape,
               data |-> [i \in 0..(N - 1) |-> [j \in 0..(C - 1) |->
                 RDiv(RInt((IF margins[i][j] > 0 THEN 1 ELSE 0)
                           - (IF j = y.data[i] THEN num_pos[i] ELSE 0)), denom)]]]]

svm_loss(x, y, eps) ==
  LET N == x.shape[1]
      C == x.shape[2]
      \* correct_class_scores = x[np.arange(N), y]
      correct_class_scores == Tab([i \in 0..(N - 1) |-> x.data[i][y.data[i]]])
      \* margins = np.maximum(0, x - correct_class_scores[:, np.newaxis] + 1.0)
      \* margins[np.arange(N), y] = 0
      margins == Tab([i \in 0..(N - 1) |-> Tab([j \in 0..(C - 1) |->
                   LET m == x.data[i][j] - correct_class_scores[i] + 1
                   IN  IF j = y.data[i] THEN 0 ELSE IF m > 0 THEN m ELSE 0])])
      \* num_pos = np.sum(margins > 0, axis=1)
      num_pos == Tab([i \in 0..(N - 1) |->
                   SumTo([j \in 0..(C - 1) |-> IF margins[i][j] > 0 THEN 1 ELSE 0], C)])
      \* float(N + eps)
      denom == RAdd(RInt(N), eps)
  IN  \* loss = np.sum(margins) / float(N + eps)
      [loss |-> RDiv(RInt(SumTo([q \in 0..(N * C - 1) |-> margins[q \div C][q % C]],
                                N * C)), denom),
       \* dx = np.zeros_like(x); dx[margins > 0] = 1;
       \* dx[np.arange(N), y] -= num_pos; dx /= float(N + eps)
       dx |-> [shape |-> x.shape,
               data |-> [i \in 0..(N - 1) |-> [j \in 0..(C - 1) |->
                 RDiv(RInt((IF margins[i][j] > 0 THEN 1 ELSE 0)
                           - (IF j = y.data[i] THEN num_pos[i] ELSE 0)), denom)]]]]

SvMaxN == 2
\* the score matrices the caller draws: up to SvMaxN rows of two classes and
\* one row of three over three scores, two rows of three over two scores
SvInputs ==
  UNION { { [shape |-> <<n, 2>>, data |-> d] :
              d \in [0..(n - 1) -> [0..1 -> {0, 1, 3}]] } : n \in 1..SvMaxN }
  \cup { [shape |-> <<1, 3>>, data |-> d] : d \in [0..0 -> [0..2 -> {0, 1, 3}]] }
  \cup { [shape |-> <<2, 3>>, data |-> d] : d \in [0..1 -> [0..2 -> {0, 2}]] }

SvInit == SvIdle

\* svm_loss(x, y) or svm_loss(x, y, eps)
SvmLoss ==
  /\ sv_pc = "init"
  /\ \E x \in SvInputs : \E labels \in [0..(x.shape[1] - 1) -> 0..(x.shape[2] - 1)] :
     \E e \in {Unset, RZero, Rat(1, 2)} :
       LET y == [shape |-> <<x.shape[1]>>, data |-> labels]
           r == svm_loss(x, y, IF e = Unset THEN SvmDefaultEps ELSE e)
       IN  /\ sv_x' = x
           /\ sv_y' = y
           /\ sv_eps' = e
           /\ sv_loss' = r.loss
           /\ sv_dx' = r.dx
  /\ sv_pc' = "done"

InitSvm == ReluInit /\ BNIdle /\ DoIdle /\ MpIdle /\ CvIdle /\ AfIdle /\ SvInit
NextSvm == SvmLoss /\ UNCHANGED <<reluVars, bnVars, doVars, mpVars, cvVars, afVars>>
SpecSvm == InitSvm /\ [][NextSvm]_vars

(***************************************************************************)
(* A caller that runs one layer forward, backward, and backward once more  *)
(* on the same cache and upstream gradient.  The layer is the one whose    *)
(* forward pass the caller calls first; batch normalisation is the layer   *)
(* of a caller that was given a bn_param.                                  *)
(***************************************************************************)
OnlyRelu == BNIdle /\ DoIdle /\ MpIdle /\ CvIdle /\ AfIdle
OnlyBN == ~BNIdle /\ ReluInit /\ DoIdle /\ MpIdle /\ CvIdle /\ AfIdle
OnlyDropout == ReluInit /\ BNIdle /\ MpIdle /\ CvIdle /\ AfIdle
OnlyMaxPool == ReluInit /\ BNIdle /\ DoIdle /\ CvIdle /\ AfIdle
OnlyConv == ReluInit /\ BNIdle /\ DoIdle /\ MpIdle /\ AfIdle
OnlyAffine == ReluInit /\ BNIdle /\ DoIdle /\ MpIdle /\ CvIdle

InitBackward ==
  ReluInit /\ (BNIdle \/ BNBackInit) /\ DoIdle /\ MpIdle /\ CvIdle /\ AfIdle /\ SvIdle
NextBackward ==
  \/ OnlyRelu /\ ReluForward /\ UNCHANGED <<bnVars, doVars, mpVars, cvVars, afVars, svVars>>
  \/ OnlyRelu /\ ReluBackward /\ UNCHANGED <<bnVars, doVars, mpVars, cvVars, afVars, svVars>>
  \/ OnlyRelu /\ ReluBackwardAgain
       /\ UNCHANGED <<bnVars, doVars, mpVars, cvVars, afVars, svVars>>
  \/ OnlyBN /\ BNBackForward /\ UNCHANGED <<reluVars, doVars, mpVars, cvVars, afVars, svVars>>
  \/ OnlyBN /\ BNChooseDout /\ UNCHANGED <<reluVars, doVars, mpVars, cvVars, afVars, svVars>>
  \/ OnlyBN /\ BatchnormBackward
       /\ UNCHANGED <<reluVars, doVars, mpVars, cvVars, afVars, svVars>>
  \/ OnlyBN /\ BatchnormBackwardAlt
       /\ UNCHANGED <<reluVars, doVars, mpVars, cvVars, afVars, svVars>>
  \/ OnlyBN /\ BatchnormBackwardAgain
       /\ UNCHANGED <<reluVars, doVars, mpVars, cvVars, afVars, svVars>>
  \/ OnlyDropout /\ DropoutForward
       /\ UNCHANGED <<reluVars, bnVars, mpVars, cvVars, afVars, svVars>>
  \/ OnlyDropout /\ DropoutBackward
       /\ UNCHANGED <<reluVars, bnVars, mpVars, cvVars, afVars, svVars>>
  \/ OnlyDropout /\ DropoutBackwardAgain
       /\ UNCHANGED <<reluVars, bnVars, mpVars, cvVars, afVars, svVars>>
  \/ OnlyMaxPool /\ MaxPoolForward
       /\ UNCHANGED <<reluVars, bnVars, doVars, cvVars, afVars, svVars>>
  \/ OnlyMaxPool /\ MaxPoolBackward
       /\ UNCHANGED <<reluVars, bnVars, doVars, cvVars, afVars, svVars>>
  \/ OnlyMaxPool /\ MaxPoolBackwardAgain
       /\ UNCHANGED <<reluVars, bnVars, doVars, cvVars, afVars, svVars>>
  \/ OnlyConv /\ ConvForward /\ UNCHANGED <<reluVars, bnVars, doVars, mpVars, afVars, svVars>>
  \/ OnlyConv /\ ConvBackward /\ UNCHANGED <<reluVars, bnVars, doVars, mpVars, afVars, svVars>>
  \/ OnlyConv /\ ConvBackwardAgain
       /\ UNCHANGED <<reluVars, bnVars, doVars, mpVars, afVars, svVars>>
  \/ OnlyAffine /\ AffineForward
       /\ UNCHANGED <<reluVars, bnVars, doVars, mpVars, cvVars, svVars>>
  \/ OnlyAffine /\ AffineBackward
       /\ UNCHANGED <<reluVars, bnVars, doVars, mpVars, cvVars, svVars>>
  \/ OnlyAffine /\ AffineBackwardAgain
       /\ UNCHANGED <<reluVars, bnVars, doVars, mpVars, cvVars, svVars>>
SpecBackward == InitBackward /\ [][NextBackward]_vars

(***************************************************************************)
(* Claims                                                                  *)
(***************************************************************************)
RECURSIVE ColSum(_, _, _)
\* the integer sum of column d over the first n rows of an integer matrix
ColSum(m, n, d) == IF n = 0 THEN 0 ELSE ColSum(m, n - 1, d) + m[n][d]
RECURSIVE ColSumSq(_, _, _)
ColSumSq(m, n, d) == IF n = 0 THEN 0 ELSE ColSumSq(m, n - 1, d) + m[n][d] * m[n][d]

\* the batch mean and the biased (divide-by-N) batch variance of column d,
\* from the sums: var = (N * sum x^2 - (sum x)^2) / N^2
BatchMean(x, d) == Rat(ColSum(x, Len(x), d), Len(x))
BatchVar(x, d) ==
  Rat(Len(x) * ColSumSq(x, Len(x), d) - ColSum(x, Len(x), d) * ColSum(x, Len(x), d),
      Len(x) * Len(x))
\* momentum * old + (1 - momentum) * stat, in rationals
Blend(momentum, old, stat) ==
  RAdd(RMul(momentum, old), RMul(RSub(ROne, momentum), stat))
OldStat(param, key, d) ==
  IF key \in DOMAIN param THEN param[key][d][1] ELSE RZero
MomentumOf(param) == IF "momentum" \in DOMAIN param THEN param["momentum"] ELSE Rat(9, 10)

BNAfterCall(m) == bn_pc = "forward" /\ bn_prev["mode"] = m

\* C1: after every train-mode call of batchnorm_forward, running_mean is
\* momentum*old_running_mean + (1-momentum)*batch_mean and running_var is
\* momentum*old_running_var + (1-momentum)*batch_var, old_* being the value in
\* bn_param before the call (zeros if the key was absent), batch_var the biased
\* variance and momentum 0.9 when not supplied.
C1_RunningStats ==
  BNAfterCall("train") =>
    /\ bn_err = "none"
    /\ {"running_mean", "running_var"} \subseteq DOMAIN bn_param
    /\ \A d \in 1..Len(bn_x[1]) :
         /\ bn_param["running_mean"][d] =
              QR(Blend(MomentumOf(bn_prev), OldStat(bn_prev, "running_mean", d),
                       BatchMean(bn_x, d)))
         /\ bn_param["running_var"][d] =
              QR(Blend(MomentumOf(bn_prev), OldStat(bn_prev, "running_var", d),
                       BatchVar(bn_x, d)))

\* a second train-mode call with the default momentum, on statistics the first
\* call stored, with a batch of non-zero variance
C1_Witness ==
  /\ BNAfterCall("train")
  /\ bn_calls = 2
  /\ "momentum" \notin DOMAIN bn_prev
  /\ "running_var" \in DOMAIN bn_prev
  /\ bn_prev["running_var"][1] # QZero
  /\ BatchVar(bn_x, 1) # RZero

\* C2: the running statistics change only in train-mode calls; a test-mode
\* call returns normally and leaves bn_param, every key and every absent key,
\* as it was before the call.
C2_TestKeepsParam ==
  /\ BNAfterCall("test") => bn_err = "none" /\ bn_param = bn_prev
  /\ (bn_pc = "forward" /\ bn_param # bn_prev) => bn_prev["mode"] = "train"

\* a test-mode call on a bn_param that holds running_mean and no running_var
C2_Witness ==
  /\ BNAfterCall("test")
  /\ bn_out # NoOut
  /\ "running_mean" \in DOMAIN bn_param
  /\ "running_var" \notin DOMAIN bn_param

\* C3: a call with a mode that is neither 'train' nor 'test' raises ValueError,
\* returns neither out nor cache, and leaves bn_param unchanged.
C3_InvalidMode ==
  (bn_pc = "forward" /\ bn_prev["mode"] \notin {"train", "test"}) =>
    /\ bn_err = "ValueError"
    /\ bn_out = NoOut
    /\ bn_cache = NoResult
    /\ bn_param = bn_prev

\* an invalid-mode call after a train-mode call stored the statistics
C3_Witness ==
  /\ BNAfterCall("valid")
  /\ bn_calls = 2
  /\ "running_var" \in DOMAIN bn_param

BothGrads == bn_grad.kind = "grads" /\ bn_grad_alt.kind = "grads"

\* C5: on the cache of a train-mode forward call and one dout, the staged and
\* the closed-form backward pass return the same dx, the same dgamma = sum over
\* N of dout*x_hat and the same dbeta = sum over N of dout.
C5_BackwardAgree ==
  BothGrads =>
    /\ bn_grad.dx = bn_grad_alt.dx
    /\ bn_grad.dgamma = bn_grad_alt.dgamma
    /\ bn_grad.dbeta = bn_grad_alt.dbeta
    /\ \A d \in 1..Len(bn_x[1]) :
         /\ bn_grad.dbeta[d] = QInt(ColSum(bn_dout, Len(bn_x), d))
         \* x_hat = x_mean / sample_var_sqrt
         /\ QMul(bn_grad.dgamma[d], bn_cache.sample_var_sqrt[d]) =
              QSumTo([n \in 1..Len(bn_x) |->
                        QMul(QInt(bn_dout[n][d]), bn_cache.x_mean[n][d])], Len(bn_x))

\* both passes ran on a two-column batch and returned a dx with an irrational
\* entry
C5_Witness ==
  /\ BothGrads
  /\ Len(bn_x[1]) = 2
  /\ bn_x[1] # bn_x[2]
  /\ \E n \in 1..Len(bn_x) : \E d \in 1..2 : bn_grad.dx[n][d][2] # RZero

DoInvalid == do_param["mode"] \notin {"train", "test"}

\* C4: dropout_forward and dropout_backward called with a mode that is neither
\* 'train' nor 'test' fail with an error and return no result.  (The claim asks
\* for an invalid-argument error; the formula asks only for an error.)
C4_InvalidModeFails ==
  /\ (do_pc = "forward" /\ DoInvalid) => (do_err # "none" /\ do_out = Unset)
  /\ (do_pc = "backward" /\ DoInvalid) => do_dx.kind = "raised"

DoForwardOk == do_pc # "init" /\ do_err = "none"

\* C6: with p = 0, dropout_forward returns out equal to x element for element,
\* in mode 'train' (every mask element is keep) and in mode 'test'.
C6_PZeroIdentity ==
  (DoForwardOk /\ do_param["p"] = RZero) =>
    /\ do_out.kind = "array"
    /\ \A i \in DOMAIN do_x.data : do_out.data[i] = RInt(do_x.data[i])
    /\ do_cache.fwd_mode = "train" =>
         \A i \in DOMAIN do_x.data : do_cache.mask.data[i] = TRUE

\* an unseeded train-mode call with p = 0 on an integer tensor
C6_Witness ==
  /\ DoForwardOk
  /\ do_param["p"] = RZero
  /\ do_cache.fwd_mode = "train"
  /\ "seed" \notin DOMAIN do_param
  /\ do_x.dtype = "int"

\* C7: two train-mode calls with the same seed, the same p and the same x
\* produce the same mask and the same output, whatever calls were made between
\* them.
C7_SeedDeterministic ==
  \A i, j \in DOMAIN do_seen :
    (/\ do_seen[i].seeded /\ do_seen[j].seeded
     /\ do_seen[i].seed = do_seen[j].seed
     /\ do_seen[i].p = do_seen[j].p
     /\ do_seen[i].x = do_seen[j].x)
    => (do_seen[i].mask = do_seen[j].mask /\ do_seen[i].out = do_seen[j].out)

\* the same seeded call twice, an unseeded call that drew another mask between
\* them, and a mask that drops one element and keeps the other
C7_Witness ==
  /\ Len(do_seen) = 3
  /\ do_seen[1].seeded /\ ~do_seen[2].seeded /\ do_seen[3].seeded
  /\ do_seen[1].seed = do_seen[3].seed
  /\ do_seen[1].p = do_seen[3].p
  /\ do_seen[1].x = do_seen[3].x
  /\ do_seen[2].p = do_seen[1].p
  /\ do_seen[2].mask # do_seen[1].mask
  /\ do_seen[1].mask.data[1] # do_seen[1].mask.data[2]

\* backward ran on the cache as forward returned it
DoMatching == do_pc = "backward" /\ do_param["mode"] = do_cache.fwd_mode

\* C8: on the cache of the matching forward call, dropout_backward returns in
\* train mode dx = dout * mask / (1-p) with the mask forward used (0 where
\* forward dropped, dout/(1-p) where it kept) and in test mode, where the
\* cached mask is None, dx = dout.
C8_BackwardMask ==
  /\ (DoMatching /\ do_cache.fwd_mode = "train") =>
       /\ do_dx.kind = "array"
       /\ \A i \in DOMAIN do_dout :
            \* forward dropped i exactly when out[i] = 0: no x[i] is 0
            /\ do_cache.mask.data[i] <=> do_out.data[i] # RZero
            /\ ~do_cache.mask.data[i] => do_dx.data[i] = RZero
            /\ do_cache.mask.data[i] =>
                 RMul(do_dx.data[i], RSub(ROne, do_param["p"])) = RInt(do_dout[i])
  /\ (DoMatching /\ do_cache.fwd_mode = "test") =>
       /\ do_cache.mask = MaskNone
       /\ do_dx.kind = "array"
       /\ \A i \in DOMAIN do_dout : do_dx.data[i] = RInt(do_dout[i])

\* a train-mode backward pass with p = 1/2 over a dropped and a kept element
C8_Witness ==
  /\ DoMatching
  /\ do_cache.fwd_mode = "train"
  /\ do_param["p"] = Rat(1, 2)
  /\ do_cache.mask.data[1] # do_cache.mask.data[2]

\* C9: relu_forward returns max(0, x) elementwise, never a negative entry;
\* relu_backward returns dout where the cached input is > 0 and exactly 0
\* where it is <= 0.
C9_Relu ==
  /\ relu_pc # "init" =>
       \A i \in DOMAIN relu_cache :
         /\ relu_out[i] >= 0
         /\ relu_out[i] >= relu_cache[i]
         /\ relu_out[i] \in {0, relu_cache[i]}
  /\ relu_pc = "backward" =>
       \A i \in DOMAIN relu_cache :
         /\ relu_cache[i] > 0 => relu_dx[i] = relu_dout[i]
         /\ relu_cache[i] <= 0 => relu_dx[i] = 0

\* a backward pass over a negative, a zero and a positive input
C9_Witness ==
  /\ relu_pc = "backward"
  /\ \E i, j, k \in DOMAIN relu_cache :
       /\ relu_cache[i] < 0 /\ relu_cache[j] = 0 /\ relu_cache[k] > 0
       /\ relu_dout[j] # 0 /\ relu_dx[k] # 0

\* the input positions of window (i, j), and their order in the row-major scan
MpWindow(i, j) ==
  LET pp == mp_cache.pool_param
  IN  { <<h, w>> \in (0..(mp_cache.x.shape[3] - 1)) \X (0..(mp_cache.x.shape[4] - 1)) :
          /\ i * pp.stride <= h /\ h < i * pp.stride + pp.pool_height
          /\ j * pp.stride <= w /\ w < j * pp.stride + pp.pool_width }
ScannedBefore(q, r) == q[1] < r[1] \/ (q[1] = r[1] /\ q[2] < r[2])
\* the position window (i, j) of plane (n, c) selects: it holds the window
\* maximum and no position scanned before it does
MpSelected(n, c, i, j) ==
  CHOOSE r \in MpWindow(i, j) :
    /\ \A q \in MpWindow(i, j) :
         mp_cache.x.data[n][c][q[1]][q[2]] <= mp_cache.x.data[n][c][r[1]][r[2]]
    /\ \A q \in MpWindow(i, j) :
         ScannedBefore(q, r) =>
           mp_cache.x.data[n][c][q[1]][q[2]] < mp_cache.x.data[n][c][r[1]][r[2]]
MpWindows ==
  (0..(H_prime(mp_cache.x.shape, mp_cache.pool_param) - 1))
    \X (0..(W_prime(mp_cache.x.shape, mp_cache.pool_param) - 1))
RECURSIVE DoutSum(_, _, _)
\* the sum of dout[n, c, i, j] over a set of windows (i, j)
DoutSum(n, c, ws) ==
  IF ws = {} THEN 0
  ELSE LET k == CHOOSE k \in ws : TRUE
       IN  mp_dout[n][c][k[1]][k[2]] + DoutSum(n, c, ws \ {k})

\* C10: max_pool_backward_naive routes each dout[n,c,i,j] entirely to the one
\* position of window (i,j) that holds the window maximum, the first in
\* row-major scan order on ties; dx[n,c,h,w] is the sum of dout over exactly
\* the windows whose selected position is (h,w).
C10_PoolRouting ==
  mp_pc = "backward" =>
    \A n \in 0..(mp_cache.x.shape[1] - 1) : \A c \in 0..(mp_cache.x.shape[2] - 1) :
      \A h \in 0..(mp_cache.x.shape[3] - 1) : \A w \in 0..(mp_cache.x.shape[4] - 1) :
        mp_dx[n][c][h][w] =
          DoutSum(n, c, { k \in MpWindows : MpSelected(n, c, k[1], k[2]) = <<h, w>> })

\* two overlapping windows, each with its maximum twice, select the same
\* position, the first maximum of both scans, which gets the sum of their
\* gradients; the other maximum gets nothing
C10_Witness ==
  /\ mp_pc = "backward"
  /\ mp_cache.x.shape = <<1, 1, 2, 3>>
  /\ mp_cache.pool_param.stride < mp_cache.pool_param.pool_width
  /\ mp_cache.x.data[0][0][0] = [w \in 0..2 |-> IF w = 1 THEN 1 ELSE 0]
  /\ mp_cache.x.data[0][0][1] = [w \in 0..2 |-> IF w = 1 THEN 1 ELSE 0]
  /\ MpSelected(0, 0, 0, 0) = <<0, 1>>
  /\ MpSelected(0, 0, 0, 1) = <<0, 1>>
  /\ mp_dout[0][0][0][0] = 1 /\ mp_dout[0][0][0][1] = 2
  /\ mp_dx[0][0][0][1] = 3 /\ mp_dx[0][0][1][1] = 0

RECURSIVE SetSum(_, _)
\* the sum of f over a finite set of its arguments
SetSum(f, S) ==
  IF S = {} THEN 0
  ELSE LET e == CHOOSE e \in S : TRUE IN f[e] + SetSum(f, S \ {e})

\* x zero-padded by pad on height and width only, at (n, c, h, v) of the
\* padded coordinates
XPadAt(x, pad, n, c, h, v) ==
  IF h - pad \in 0..(x.shape[3] - 1) /\ v - pad \in 0..(x.shape[4] - 1)
  THEN x.data[n][c][h - pad][v - pad] ELSE 0

\* the sum over c, kh, kw of xpad[n,c,i*s+kh,j*s+kw] * w[f,c,kh,kw], plus b[f]
ConvAt(x, w, b, conv_param, n, f, i, j) ==
  LET taps == (0..(w.shape[2] - 1)) \X (0..(w.shape[3] - 1)) \X (0..(w.shape[4] - 1))
  IN  SetSum([t \in taps |->
                XPadAt(x, conv_param.pad, n, t[1], i * conv_param.stride + t[2],
                       j * conv_param.stride + t[3]) * w.data[f][t[1]][t[2]][t[3]]],
             taps)
      + b.data[f]

\* the stride divides H + 2p - HH and W + 2p - WW
CvDivides(c) ==
  /\ (c.x.shape[3] + 2 * c.conv_param.pad - c.w.shape[3]) % c.conv_param.stride = 0
  /\ (c.x.shape[4] + 2 * c.conv_param.pad - c.w.shape[4]) % c.conv_param.stride = 0

CvOutShape(c) ==
  <<c.x.shape[1], c.w.shape[1],
    1 + (c.x.shape[3] + 2 * c.conv_param.pad - c.w.shape[3]) \div c.conv_param.stride,
    1 + (c.x.shape[4] + 2 * c.conv_param.pad - c.w.shape[4]) \div c.conv_param.stride>>

\* the scenario of two 4x4 images of three channels under two 3x3 filters of ones
CvScenario(c) ==
  /\ c.x.shape = <<2, 3, 4, 4>>
  /\ c.w = Ones(<<2, 3, 3, 3>>)
  /\ c.conv_param = [stride |-> 1, pad |-> 1]

\* the sum of the entries of x in the 3x3 field around (i, j), over the
\* channels, the part of the field outside the image counting for nothing
FieldSum(x, n, i, j) ==
  LET field == { t \in (0..(x.shape[2] - 1)) \X ((i - 1)..(i + 1)) \X ((j - 1)..(j + 1)) :
                   t[2] \in 0..(x.shape[3] - 1) /\ t[3] \in 0..(x.shape[4] - 1) }
  IN  SetSum([t \in field |-> x.data[n][t[1]][t[2]][t[3]]], field)

\* C11: for a stride that divides H+2p-HH and W+2p-WW, conv_forward_naive
\* returns an output of shape (N, F, 1+(H+2p-HH)/s, 1+(W+2p-WW)/s) whose entry
\* [n,f,i,j] is the sum over c, kh, kw of xpad[n,c,i*s+kh,j*s+kw]*w[f,c,kh,kw]
\* plus b[f], xpad being x zero-padded on height and width only; for x of
\* shape (2,3,4,4), filters of ones of shape (2,3,3,3), stride 1 and pad 1 the
\* output has shape (2,2,4,4) and each entry is the sum of its zero-padded
\* receptive field plus the bias.
C11_ConvForward ==
  (cv_pc # "init" /\ CvDivides(cv_cache)) =>
    /\ cv_out.shape = CvOutShape(cv_cache)
    /\ \A n \in 0..(cv_out.shape[1] - 1) : \A f \in 0..(cv_out.shape[2] - 1) :
         \A i \in 0..(cv_out.shape[3] - 1) : \A j \in 0..(cv_out.shape[4] - 1) :
           cv_out.data[n][f][i][j]
             = ConvAt(cv_cache.x, cv_cache.w, cv_cache.b, cv_cache.conv_param, n, f, i, j)
    /\ CvScenario(cv_cache) =>
         /\ cv_out.shape = <<2, 2, 4, 4>>
         /\ \A n \in 0..1 : \A f \in 0..1 : \A i \in 0..3 : \A j \in 0..3 :
              cv_out.data[n][f][i][j]
                = FieldSum(cv_cache.x, n, i, j) + cv_cache.b.data[f]

\* the scenario: the corner entry of the first image sums the four pixels of
\* each channel that its field holds, -3, -4 and 0, and adds the bias
C11_Witness ==
  /\ cv_pc = "forward"
  /\ CvScenario(cv_cache)
  /\ cv_cache.x = Ramp(<<2, 3, 4, 4>>, 1, 0)
  /\ cv_out.shape = <<2, 2, 4, 4>>
  /\ cv_out.data[0][0][0][0] = -6
  /\ cv_out.data[0][1][0][0] = -9

\* C12: with 1x1 filters, stride 1 and pad 0, conv_forward_naive is the affine
\* layer applied to each pixel: out[n,f,i,j] is the entry f of affine_forward
\* on the C channels of pixel (n,i,j) with the weights w[:,:,0,0] transposed
\* to (C, F) and the bias b, and the output is as high and wide as the input.
C12_PerPixelAffine ==
  af_pc = "forward" =>
    /\ cv_out.shape[3] = cv_cache.x.shape[3]
    /\ cv_out.shape[4] = cv_cache.x.shape[4]
    /\ af_out.shape = <<cv_out.shape[1] * cv_out.shape[3] * cv_out.shape[4],
                        cv_out.shape[2]>>
    /\ \A n \in 0..(cv_out.shape[1] - 1) : \A f \in 0..(cv_out.shape[2] - 1) :
         \A i \in 0..(cv_out.shape[3] - 1) : \A j \in 0..(cv_out.shape[4] - 1) :
           cv_out.data[n][f][i][j]
             = af_out.data[(n * cv_out.shape[3] + i) * cv_out.shape[4] + j][f]

\* three channels, two filters, and a pixel whose two outputs differ
C12_Witness ==
  /\ af_pc = "forward"
  /\ cv_cache.w.shape = <<2, 3, 1, 1>>
  /\ af_cache.w.shape = <<3, 2>>
  /\ af_out.shape = <<8, 2>>
  /\ cv_out.shape = <<2, 2, 2, 2>>
  /\ af_out.data[7][0] # af_out.data[7][1]
  /\ cv_out.data[1][1][1][1] = af_out.data[7][1]

\* the pixels whose window at output position (hp, wp) covers input (h, v)
CvCovers(c, h, v, hp, wp) ==
  /\ h + c.conv_param.pad - hp * c.conv_param.stride \in 0..(c.w.shape[3] - 1)
  /\ v + c.conv_param.pad - wp * c.conv_param.stride \in 0..(c.w.shape[4] - 1)

\* the sum over f and the covering (hp, wp) of dout[n,f,hp,wp] * weight[f,c,..]
DxAt(c, dout, n, ch, h, v) ==
  LET outs == { t \in (0..(dout.shape[2] - 1)) \X (0..(dout.shape[3] - 1))
                       \X (0..(dout.shape[4] - 1)) : CvCovers(c, h, v, t[2], t[3]) }
  IN  SetSum([t \in outs |->
                dout.data[n][t[1]][t[2]][t[3]]
                * c.w.data[t[1]][ch][h + c.conv_param.pad - t[2] * c.conv_param.stride]
                                    [v + c.conv_param.pad - t[3] * c.conv_param.stride]],
             outs)

\* sum(a * b) over two arrays of one shape
Inner(a, b) ==
  LET fa == Flatten(a)
      fb == Flatten(b)
  IN  SumTo([q \in 0..(Size(a.shape) - 1) |-> fa[q] * fb[q]], Size(a.shape))

\* a - b and a + b, entry by entry
Minus(a, b) ==
  LET fa == Flatten(a)
      fb == Flatten(b)
  IN  Unflatten([q \in 0..(Size(a.shape) - 1) |-> fa[q] - fb[q]], a.shape)
Plus(a, b) ==
  LET fa == Flatten(a)
      fb == Flatten(b)
  IN  Unflatten([q \in 0..(Size(a.shape) - 1) |-> fa[q] + fb[q]], a.shape)

\* the perturbations of x: 1 at one entry and 0 elsewhere, for every entry,
\* and two that change every entry
CvPerturbations(shape) ==
  { Unflatten([q \in 0..(Size(shape) - 1) |-> IF q = p THEN 1 ELSE 0], shape) :
      p \in 0..(Size(shape) - 1) }
  \cup { Ramp(shape, 1, 3), Ramp(shape, 3, 0) }

\* C13: conv_backward_naive returns the gradient of the convolution in x: dx
\* has the shape of the un-padded x and dx[n,c,h,w] is the sum, over every
\* filter f and every output position (hp,wp) whose window covers the pixel,
\* of dout[n,f,hp,wp] * weight[f,c,h+pad-hp*stride,w+pad-wp*stride]; and for
\* every perturbation d of x, sum(dout * (forward(x+d) - forward(x))) is
\* sum(dx * d).
C13_ConvBackwardDx ==
  cv_pc = "backward" =>
    /\ cv_grad.dx.shape = cv_cache.x.shape
    /\ \A n \in 0..(cv_cache.x.shape[1] - 1) : \A c \in 0..(cv_cache.x.shape[2] - 1) :
         \A h \in 0..(cv_cache.x.shape[3] - 1) : \A v \in 0..(cv_cache.x.shape[4] - 1) :
           cv_grad.dx.data[n][c][h][v] = DxAt(cv_cache, cv_dout, n, c, h, v)
    /\ \A d \in CvPerturbations(cv_cache.x.shape) :
         Inner(cv_dout,
               Minus(conv_forward_naive(Plus(cv_cache.x, d), cv_cache.w, cv_cache.b,
                                        cv_cache.conv_param).out,
                     cv_out))
           = Inner(cv_grad.dx, d)

\* stride 2 and pad 1: the corner pixel lies under one window only, at its
\* centre tap, the taps above and left of it falling on the padding
C13_Witness ==
  /\ cv_pc = "backward"
  /\ cv_cache.conv_param = [stride |-> 2, pad |-> 1]
  /\ cv_cache.w.shape = <<1, 1, 3, 3>>
  /\ cv_grad.dx.shape = <<1, 1, 3, 3>>
  /\ cv_grad.dx.data[0][0][0][0] = cv_dout.data[0][0][0][0] * cv_cache.w.data[0][0][1][1]
  /\ cv_grad.dx.data[0][0][0][0] # 0
  /\ cv_grad.dx.data[0][0][1][1] # 0

\* margin[i,j] = max(0, x[i,j] - x[i,y_i] + 1) for j # y_i, and 0 for j = y_i
SvMargin(i, j) ==
  LET m == sv_x.data[i][j] - sv_x.data[i][sv_y.data[i]] + 1
  IN  IF j # sv_y.data[i] /\ m > 0 THEN m ELSE 0
SvCells == (0..(sv_x.shape[1] - 1)) \X (0..(sv_x.shape[2] - 1))
SvMarginSum == SetSum([p \in SvCells |-> SvMargin(p[1], p[2])], SvCells)
\* 1 where the margin is positive, minus their number at the correct class
SvSign(i, j) ==
  IF j = sv_y.data[i]
  THEN -Cardinality({ k \in 0..(sv_x.shape[2] - 1) : SvMargin(i, k) > 0 })
  ELSE IF SvMargin(i, j) > 0 THEN 1 ELSE 0
\* the loss is the margin sum over div and dx[i,j] the sign over div
SvDividedBy(div) ==
  /\ sv_loss = RDiv(RInt(SvMarginSum), div)
  /\ sv_dx.shape = sv_x.shape
  /\ \A p \in SvCells : sv_dx.data[p[1]][p[2]] = RDiv(RInt(SvSign(p[1], p[2])), div)

\* C14 as stated: svm_loss(x, y) returns the sum of the margins divided by N
\* and dx with 1 at the positive margins and minus their number at the
\* correct class, all divided by N.
C14_DividedByN ==
  (sv_pc = "done" /\ sv_eps = Unset) => SvDividedBy(RInt(sv_x.shape[1]))

\* C14 amended: svm_loss returns the sum of the margins divided by N + eps and
\* dx with 1 at the positive margins and minus their number at the correct
\* class, all divided by N + eps, eps being the third argument, 1e-3 when the
\* caller leaves it out.
C14_DividedByNPlusEps ==
  sv_pc = "done" =>
    SvDividedBy(RAdd(RInt(sv_x.shape[1]),
                     IF sv_eps = Unset THEN Rat(1, 1000) ELSE sv_eps))

\* one row of scores (3, 0, 1) with the class of score 1 correct and eps left
\* out: margins 3, 0 and 0, loss 3 / 1.001, and neither is 3 or 1
C14_Witness ==
  /\ sv_pc = "done"
  /\ sv_eps = Unset
  /\ sv_x.shape = <<1, 3>>
  /\ sv_x.data[0] = [j \in 0..2 |-> IF j = 0 THEN 3 ELSE IF j = 1 THEN 0 ELSE 1]
  /\ sv_y.data[0] = 2
  /\ sv_loss = Rat(3000, 1001)
  /\ sv_dx.data[0][0] = Rat(1000, 1001)
  /\ sv_dx.data[0][1] = RZero
  /\ sv_dx.data[0][2] = Rat(-1000, 1001)

\* C16: batchnorm_forward hands a cache to the backward pass only in train
\* mode: a test-mode call returns its output and None for the cache, and
\* batchnorm_backward and batchnorm_backward_alt given that cache fail instead
\* of returning gradients, while after a train-mode call both return them.
C16_CacheOnlyInTrain ==
  (bn_pc # "init" /\ bn_err = "none") =>
    /\ bn_prev["mode"] = "test" => (bn_out # NoOut /\ bn_cache = NoCache)
    /\ bn_prev["mode"] = "train" => bn_cache.kind = "tuple"
    /\ bn_grad # NoGrad =>
         /\ bn_prev["mode"] = "test" => bn_grad.kind = "raised"
         /\ bn_prev["mode"] = "train" => bn_grad.kind = "grads"
    /\ bn_grad_alt # NoGrad =>
         /\ bn_prev["mode"] = "test" => bn_grad_alt.kind = "raised"
         /\ bn_prev["mode"] = "train" => bn_grad_alt.kind = "grads"

\* a test-mode forward returned an output, and both backward passes were
\* called with its cache and failed
C16_Witness ==
  /\ bn_pc = "backward"
  /\ bn_prev["mode"] = "test"
  /\ bn_err = "none"
  /\ bn_out # NoOut
  /\ bn_cache = NoCache
  /\ bn_grad.kind = "raised"
  /\ bn_grad_alt.kind = "raised"

\* a step of a layer that ends in a backward call (the first call, or the
\* second one on the same arguments) leaves the cache as it was; the second
\* call also leaves dout as it was and returns the gradients of the first
ReluFrame ==
  /\ relu_pc' \in {"backward", "again"} => relu_cache' = relu_cache
  /\ (relu_pc = "backward" /\ relu_pc' = "again") =>
       (relu_dout' = relu_dout /\ relu_dx' = relu_dx)
BNFrame ==
  /\ bn_pc' \in {"backward", "again"} => bn_cache' = bn_cache
  /\ (bn_pc = "backward" /\ bn_pc' \in {"backward", "again"}) => bn_dout' = bn_dout
  /\ (bn_pc = "backward" /\ bn_pc' = "again") =>
       (bn_grad' = bn_grad /\ bn_grad_alt' = bn_grad_alt)
DoFrame ==
  /\ do_pc' \in {"backward", "again"} => (do_cache' = do_cache /\ do_param' = do_param)
  /\ (do_pc = "backward" /\ do_pc' = "again") => (do_dout' = do_dout /\ do_dx' = do_dx)
MpFrame ==
  /\ mp_pc' \in {"backward", "again"} => mp_cache' = mp_cache
  /\ (mp_pc = "backward" /\ mp_pc' = "again") => (mp_dout' = mp_dout /\ mp_dx' = mp_dx)
CvFrame ==
  /\ cv_pc' \in {"backward", "again"} => cv_cache' = cv_cache
  /\ (cv_pc = "backward" /\ cv_pc' = "again") => (cv_dout' = cv_dout /\ cv_grad' = cv_grad)
AfFrame ==
  /\ af_pc' \in {"backward", "again"} => af_cache' = af_cache
  /\ (af_pc = "backward" /\ af_pc' = "again") => (af_dout' = af_dout /\ af_grad' = af_grad)

\* C15: no backward function changes the cache or the dout it is given: after
\* affine_backward, relu_backward, batchnorm_backward, batchnorm_backward_alt,
\* dropout_backward, conv_backward_naive or max_pool_backward_naive returns,
\* every member of the cache and the dout have the value they had before the
\* call, so a second call on the same cache returns the same gradients.
C15_CacheUnchanged ==
  [][ReluFrame /\ BNFrame /\ DoFrame /\ MpFrame /\ CvFrame /\ AfFrame]_vars

\* both batch-norm backward passes ran twice on the cache of a train-mode
\* forward and a dout that is not zero, and returned gradients that are not zero
C15_Witness ==
  /\ bn_pc = "again"
  /\ bn_cache.kind = "tuple"
  /\ bn_grad.kind = "grads"
  /\ bn_grad_alt.kind = "grads"
  /\ \E n \in DOMAIN bn_dout : \E d \in DOMAIN bn_dout[n] :
       bn_dout[n][d] # 0 /\ bn_grad.dx[n][d] # QZero /\ bn_cache.gamma[d] # QInt(1)

====
